---- MODULE Spec2Model ----
(***************************************************************************)
(* Profitability calculator: the scenario projection engine as it is       *)
(* written three times in the repository (client lib/calculations, the     *)
(* POST /api/analysis handler and the POST /api/report handler), on top of *)
(* the project / scenario storage the handlers read from.                  *)
(*                                                                         *)
(* Numbers.  The code computes with JavaScript Numbers.  Here a Number is  *)
(* a record [n, d]: a reduced fraction n/d with d > 0 when finite, and     *)
(* d = 0 for the three non-finite values (n = 1: Infinity, n = -1:         *)
(* -Infinity, n = 0: NaN).  Finite arithmetic is exact; the binary         *)
(* rounding error of IEEE doubles is not modelled.                         *)
(***************************************************************************)
EXTENDS Integers, Sequences, FiniteSets, TLC

VARIABLES
    projects,        \* projects table: id -> row
    scenarios,       \* scenarios table: sequence of rows, in heap order
    nextProjectId,   \* serial of projects.id
    nextScenarioId,  \* serial of scenarios.id
    response,        \* what the last request handler handed to res
    aiRequest,       \* the call the last request made to the AI text service
    cProject,        \* calculation harness: the Project argument
    cScenario,       \* calculation harness: the Scenario argument
    cOut,            \* calculation harness: locals and return value of the last call
    fValue,          \* formatter harness: the value argument
    fText,           \* formatter harness: the formatter called and the text it returned
    calls,           \* storage calls in progress: where each one stands
    chart,           \* RevenueExpensesChart: monthlyData and the locals of its loop
    selectedMonths   \* ProfitProjectionChart: the selectedMonths state

vars == <<projects, scenarios, nextProjectId, nextScenarioId, response, aiRequest,
          cProject, cScenario, cOut, fValue, fText, calls, chart, selectedMonths>>

serverVars == <<projects, scenarios, nextProjectId, nextScenarioId, response, aiRequest>>
formatVars == <<fValue, fText>>
componentVars == <<calls, chart, selectedMonths>>
calcVars == <<cProject, cScenario, cOut, fValue, fText, componentVars>>

(***************************************************************************)
(* JavaScript Number arithmetic                                            *)
(***************************************************************************)
Abs(x) == IF x < 0 THEN -x ELSE x

Sgn(x) == IF x > 0 THEN 1 ELSE IF x < 0 THEN -1 ELSE 0

RECURSIVE GCD(_, _)
GCD(a, b) == IF b = 0 THEN a ELSE GCD(b, a % b)

\* A fraction n/d brought to the canonical form of a Number.
Norm(n, d) ==
    IF d = 0 THEN [n |-> Sgn(n), d |-> 0]
    ELSE IF n = 0 THEN [n |-> 0, d |-> 1]
    ELSE LET g == GCD(Abs(n), Abs(d))
         IN  [n |-> Sgn(d) * (n \div g), d |-> Abs(d) \div g]

Num(i) == [n |-> i, d |-> 1]

NaN == [n |-> 0, d |-> 0]
PosInfinity == [n |-> 1, d |-> 0]
NegInfinity == [n |-> -1, d |-> 0]

isFinite(x) == x.d # 0
isNaN(x) == x.d = 0 /\ x.n = 0

\* x * y
NumMul(x, y) ==
    IF x.d = 0 \/ y.d = 0 THEN [n |-> Sgn(x.n) * Sgn(y.n), d |-> 0]
    ELSE IF x.n = 0 \/ y.n = 0 THEN Num(0)
    ELSE LET g1 == GCD(Abs(x.n), y.d)
             g2 == GCD(Abs(y.n), x.d)
         IN  [n |-> (x.n \div g1) * (y.n \div g2),
              d |-> (x.d \div g2) * (y.d \div g1)]

\* 1 / x, with 1/0 = Infinity
NumRecip(x) ==
    IF x.n > 0 THEN [n |-> x.d, d |-> x.n]
    ELSE IF x.n < 0 THEN [n |-> -x.d, d |-> -x.n]
    ELSE [n |-> x.d, d |-> 0]

\* x / y
NumDiv(x, y) == NumMul(x, NumRecip(y))

\* x + y
NumAdd(x, y) ==
    IF x.d = 0 /\ y.d = 0 THEN (IF x.n = y.n THEN x ELSE NaN)
    ELSE IF x.d = 0 THEN x
    ELSE IF y.d = 0 THEN y
    ELSE LET g == GCD(x.d, y.d)
         IN  Norm(x.n * (y.d \div g) + y.n * (x.d \div g), x.d * (y.d \div g))

NumNeg(x) == [n |-> -x.n, d |-> x.d]

\* x - y
NumSub(x, y) == NumAdd(x, NumNeg(y))

\* x < y, false when either side is NaN
NumLess(x, y) ==
    /\ ~isNaN(x) /\ ~isNaN(y)
    /\ IF x.d = 0 /\ y.d = 0 THEN x.n < y.n
       ELSE IF x.d = 0 THEN x.n < 0
       ELSE IF y.d = 0 THEN y.n > 0
       ELSE x.n * y.d < y.n * x.d

\* The value of obj.f: <<v>> when the field is there and <<>>, standing for
\* undefined, when it is not.
Get(obj, f) == IF f \in DOMAIN obj THEN <<obj[f]>> ELSE <<>>

\* Number(v) of what a field read gave.  The store hands numeric columns
\* over as decimal strings; the model keeps a stored value as the integer
\* the string spells.  Number(undefined) is NaN.
Number(v) == IF v = <<>> THEN NaN ELSE Num(v[1])

Pow10(k) == IF k = 0 THEN 1 ELSE IF k = 1 THEN 10 ELSE 100

\* x.toFixed(digits): the decimal string of x with exactly `digits' fraction
\* digits, as [kind, neg, units, digits] where units is the digit string
\* read as an integer.  The nearest such decimal; a tie goes to the larger
\* magnitude.  Non-finite values print as their names.
toFixed(x, digits) ==
    IF x.d = 0
    THEN [kind |-> IF x.n > 0 THEN "Infinity" ELSE IF x.n < 0 THEN "-Infinity" ELSE "NaN",
          neg |-> FALSE, units |-> 0, digits |-> digits]
    ELSE [kind |-> "decimal",
          neg |-> x.n < 0,
          units |-> (Abs(x.n) \div x.d) * Pow10(digits)
                    + (2 * (Abs(x.n) % x.d) * Pow10(digits) + x.d) \div (2 * x.d),
          digits |-> digits]

\* parseFloat(s) of a string toFixed produced.
parseFloat(s) ==
    IF s.kind = "Infinity" THEN PosInfinity
    ELSE IF s.kind = "-Infinity" THEN NegInfinity
    ELSE IF s.kind = "NaN" THEN NaN
    ELSE Norm(IF s.neg THEN -s.units ELSE s.units, Pow10(s.digits))

(***************************************************************************)
(* Client library: calculateFinancialMetrics, generateMonthlyProjections,  *)
(* generateCostBreakdown                                                   *)
(***************************************************************************)
\* Fault variant: the fixed costs follow the growth rate.
calculateFinancialMetrics_adjusted_growthOnCosts(project, scenario) ==
    LET growthMultiplier == NumAdd(Num(1), NumDiv(Number(Get(scenario, "growthRate")), Num(100)))
        costMultiplier == NumAdd(Num(1), NumDiv(Number(Get(scenario, "costAdjustment")), Num(100)))
    IN  [adjustedMonthlyRevenue |-> NumMul(Number(Get(project, "expectedMonthlyRevenue")), growthMultiplier),
         adjustedMonthlyFixedCosts |-> NumMul(Number(Get(project, "monthlyFixedCosts")), growthMultiplier),
         adjustedVariableCosts |-> NumMul(Number(Get(project, "variableCosts")), costMultiplier)]

\* calculateFinancialMetrics, "Adjust values based on scenario parameters"
calculateFinancialMetrics_adjusted(project, scenario) ==
    LET growthMultiplier == NumAdd(Num(1), NumDiv(Number(Get(scenario, "growthRate")), Num(100)))
        costMultiplier == NumAdd(Num(1), NumDiv(Number(Get(scenario, "costAdjustment")), Num(100)))
    IN  [adjustedMonthlyRevenue |-> NumMul(Number(Get(project, "expectedMonthlyRevenue")), growthMultiplier),
         adjustedMonthlyFixedCosts |-> NumMul(Number(Get(project, "monthlyFixedCosts")), costMultiplier),
         adjustedVariableCosts |-> NumMul(Number(Get(project, "variableCosts")), costMultiplier)]

\* Fault variant: the break-even divides the investment by the annual profit.
calculateFinancialMetrics_unrounded_breakEvenOnAnnual(project, adj) ==
    LET annualRevenue == NumMul(adj.adjustedMonthlyRevenue, Num(12))
        annualFixedCosts == NumMul(adj.adjustedMonthlyFixedCosts, Num(12))
        annualVariableCosts == NumMul(NumDiv(adj.adjustedVariableCosts, Num(100)), annualRevenue)
        totalAnnualCosts == NumAdd(annualFixedCosts, annualVariableCosts)
        annualProfit == NumSub(annualRevenue, totalAnnualCosts)
        roi == NumMul(NumDiv(annualProfit, Number(Get(project, "initialInvestment"))), Num(100))
        monthlyProfit ==
            NumSub(NumSub(adj.adjustedMonthlyRevenue, adj.adjustedMonthlyFixedCosts),
                   NumMul(NumDiv(adj.adjustedVariableCosts, Num(100)), adj.adjustedMonthlyRevenue))
        breakEven == NumDiv(Number(Get(project, "initialInvestment")), annualProfit)
        profitMargin == NumMul(NumDiv(annualProfit, annualRevenue), Num(100))
    IN  [annualRevenue |-> annualRevenue,
         annualProfit |-> annualProfit,
         roi |-> roi,
         monthlyProfit |-> monthlyProfit,
         breakEven |-> breakEven,
         profitMargin |-> profitMargin]

\* calculateFinancialMetrics, the locals from annualRevenue to profitMargin
calculateFinancialMetrics_unrounded(project, adj) ==
    LET annualRevenue == NumMul(adj.adjustedMonthlyRevenue, Num(12))
        annualFixedCosts == NumMul(adj.adjustedMonthlyFixedCosts, Num(12))
        annualVariableCosts == NumMul(NumDiv(adj.adjustedVariableCosts, Num(100)), annualRevenue)
        totalAnnualCosts == NumAdd(annualFixedCosts, annualVariableCosts)
        annualProfit == NumSub(annualRevenue, totalAnnualCosts)
        roi == NumMul(NumDiv(annualProfit, Number(Get(project, "initialInvestment"))), Num(100))
        monthlyProfit ==
            NumSub(NumSub(adj.adjustedMonthlyRevenue, adj.adjustedMonthlyFixedCosts),
                   NumMul(NumDiv(adj.adjustedVariableCosts, Num(100)), adj.adjustedMonthlyRevenue))
        breakEven == NumDiv(Number(Get(project, "initialInvestment")), monthlyProfit)
        profitMargin == NumMul(NumDiv(annualProfit, annualRevenue), Num(100))
    IN  [annualRevenue |-> annualRevenue,
         annualProfit |-> annualProfit,
         roi |-> roi,
         monthlyProfit |-> monthlyProfit,
         breakEven |-> breakEven,
         profitMargin |-> profitMargin]

\* calculateFinancialMetrics, "Risk level based on scenario"
calculateFinancialMetrics_riskLevel(scenario) ==
    IF scenario.name = "Optimistic" THEN "Low"
    ELSE IF scenario.name = "Realistic" THEN "Medium"
    ELSE "High"

\* Fault variant: a negative breakEven is clamped to 0.
calculateFinancialMetrics_return_clamped(u, riskLevel) ==
    [roi |-> parseFloat(toFixed(u.roi, 1)),
     breakEven |-> IF u.breakEven.n < 0 THEN Num(0) ELSE parseFloat(toFixed(u.breakEven, 1)),
     netProfit |-> parseFloat(toFixed(u.annualProfit, 2)),
     profitMargin |-> parseFloat(toFixed(u.profitMargin, 1)),
     riskLevel |-> riskLevel]

\* Fault variant: profitMargin is emitted with two decimals.
calculateFinancialMetrics_return_twoDigits(u, riskLevel) ==
    [roi |-> parseFloat(toFixed(u.roi, 1)),
     breakEven |-> parseFloat(toFixed(u.breakEven, 1)),
     netProfit |-> parseFloat(toFixed(u.annualProfit, 2)),
     profitMargin |-> parseFloat(toFixed(u.profitMargin, 2)),
     riskLevel |-> riskLevel]

\* calculateFinancialMetrics, the returned object
calculateFinancialMetrics_return(u, riskLevel) ==
    [roi |-> parseFloat(toFixed(u.roi, 1)),
     breakEven |-> parseFloat(toFixed(u.breakEven, 1)),
     netProfit |-> parseFloat(toFixed(u.annualProfit, 2)),
     profitMargin |-> parseFloat(toFixed(u.profitMargin, 1)),
     riskLevel |-> riskLevel]

calculateFinancialMetrics(project, scenario) ==
    calculateFinancialMetrics_return(
        calculateFinancialMetrics_unrounded(project,
            calculateFinancialMetrics_adjusted(project, scenario)),
        calculateFinancialMetrics_riskLevel(scenario))

\* Fault variant: the variable rate is left unadjusted.
generateMonthlyProjections_adjusted_baseRate(project, scenario) ==
    LET growthMultiplier == NumAdd(Num(1), NumDiv(Number(Get(scenario, "growthRate")), Num(100)))
        costMultiplier == NumAdd(Num(1), NumDiv(Number(Get(scenario, "costAdjustment")), Num(100)))
    IN  [adjustedMonthlyRevenue |-> NumMul(Number(Get(project, "expectedMonthlyRevenue")), growthMultiplier),
         adjustedMonthlyFixedCosts |-> NumMul(Number(Get(project, "monthlyFixedCosts")), costMultiplier),
         adjustedVariableCosts |-> Number(Get(project, "variableCosts"))]

\* generateMonthlyProjections, "Adjust values based on scenario parameters"
generateMonthlyProjections_adjusted(project, scenario) ==
    LET growthMultiplier == NumAdd(Num(1), NumDiv(Number(Get(scenario, "growthRate")), Num(100)))
        costMultiplier == NumAdd(Num(1), NumDiv(Number(Get(scenario, "costAdjustment")), Num(100)))
    IN  [adjustedMonthlyRevenue |-> NumMul(Number(Get(project, "expectedMonthlyRevenue")), growthMultiplier),
         adjustedMonthlyFixedCosts |-> NumMul(Number(Get(project, "monthlyFixedCosts")), costMultiplier),
         adjustedVariableCosts |-> NumMul(Number(Get(project, "variableCosts")), costMultiplier)]

\* Fault variant: months are numbered from 0.
generateMonthlyProjections_month_zeroBased(adj, i) ==
    LET month == i
        monthRevenue == NumMul(adj.adjustedMonthlyRevenue,
                               NumAdd(Num(1), NumMul(Norm(2, 100), Num(i))))
        monthExpenses == NumAdd(adj.adjustedMonthlyFixedCosts,
                                NumMul(NumDiv(adj.adjustedVariableCosts, Num(100)), monthRevenue))
        monthProfit == NumSub(monthRevenue, monthExpenses)
    IN  [month |-> month, monthRevenue |-> monthRevenue,
         monthExpenses |-> monthExpenses, monthProfit |-> monthProfit]

\* generateMonthlyProjections, the locals of the Array.from callback at index i
generateMonthlyProjections_month(adj, i) ==
    LET month == i + 1
        monthRevenue == NumMul(adj.adjustedMonthlyRevenue,
                               NumAdd(Num(1), NumMul(Norm(2, 100), Num(i))))
        monthExpenses == NumAdd(adj.adjustedMonthlyFixedCosts,
                                NumMul(NumDiv(adj.adjustedVariableCosts, Num(100)), monthRevenue))
        monthProfit == NumSub(monthRevenue, monthExpenses)
    IN  [month |-> month, monthRevenue |-> monthRevenue,
         monthExpenses |-> monthExpenses, monthProfit |-> monthProfit]

\* generateMonthlyProjections, the object the callback returns
generateMonthlyProjections_entry(m) ==
    [month |-> m.month,
     revenue |-> parseFloat(toFixed(m.monthRevenue, 2)),
     expenses |-> parseFloat(toFixed(m.monthExpenses, 2)),
     profit |-> parseFloat(toFixed(m.monthProfit, 2))]

\* generateMonthlyProjections, Array.from({ length: 12 }, ...) before rounding
generateMonthlyProjections_months(adj) ==
    [k \in 1..12 |-> generateMonthlyProjections_month(adj, k - 1)]

generateMonthlyProjections(project, scenario) ==
    LET ms == generateMonthlyProjections_months(
                  generateMonthlyProjections_adjusted(project, scenario))
    IN  [k \in 1..Len(ms) |-> generateMonthlyProjections_entry(ms[k])]

generateCostBreakdown(project) ==
    [initialInvestment |-> Number(Get(project, "initialInvestment")),
     fixedCosts |-> NumMul(Number(Get(project, "monthlyFixedCosts")), Num(12)),
     variableCosts |-> NumMul(NumMul(Number(Get(project, "expectedMonthlyRevenue")),
                                     NumDiv(Number(Get(project, "variableCosts")), Num(100))),
                              Num(12))]

(***************************************************************************)
(* POST /api/analysis: the handler's own copy of the calculations          *)
(***************************************************************************)
\* Fault variant: every scenario is adjusted by the growth rate of the project's first scenario.
PostAnalysis_adjusted_firstGrowth(pws, scenario) ==
    LET growthMultiplier == NumAdd(Num(1), NumDiv(Number(Get(pws.scenarios[1], "growthRate")), Num(100)))
        costMultiplier == NumAdd(Num(1), NumDiv(Number(Get(scenario, "costAdjustment")), Num(100)))
    IN  [adjustedMonthlyRevenue |-> NumMul(Number(Get(pws, "expectedMonthlyRevenue")), growthMultiplier),
         adjustedMonthlyFixedCosts |-> NumMul(Number(Get(pws, "monthlyFixedCosts")), costMultiplier),
         adjustedVariableCosts |-> NumMul(Number(Get(pws, "variableCosts")), costMultiplier)]

\* POST /api/analysis, "Adjust values based on scenario parameters"
PostAnalysis_adjusted(pws, scenario) ==
    LET growthMultiplier == NumAdd(Num(1), NumDiv(Number(Get(scenario, "growthRate")), Num(100)))
        costMultiplier == NumAdd(Num(1), NumDiv(Number(Get(scenario, "costAdjustment")), Num(100)))
    IN  [adjustedMonthlyRevenue |-> NumMul(Number(Get(pws, "expectedMonthlyRevenue")), growthMultiplier),
         adjustedMonthlyFixedCosts |-> NumMul(Number(Get(pws, "monthlyFixedCosts")), costMultiplier),
         adjustedVariableCosts |-> NumMul(Number(Get(pws, "variableCosts")), costMultiplier)]

\* Fault variant: the annual costs leave out the variable costs.
PostAnalysis_unrounded_noVariableCosts(pws, adj) ==
    LET annualRevenue == NumMul(adj.adjustedMonthlyRevenue, Num(12))
        annualFixedCosts == NumMul(adj.adjustedMonthlyFixedCosts, Num(12))
        annualVariableCosts == NumMul(NumDiv(adj.adjustedVariableCosts, Num(100)), annualRevenue)
        totalAnnualCosts == annualFixedCosts
        annualProfit == NumSub(annualRevenue, totalAnnualCosts)
        roi == NumMul(NumDiv(annualProfit, Number(Get(pws, "initialInvestment"))), Num(100))
        monthlyProfit ==
            NumSub(NumSub(adj.adjustedMonthlyRevenue, adj.adjustedMonthlyFixedCosts),
                   NumMul(NumDiv(adj.adjustedVariableCosts, Num(100)), adj.adjustedMonthlyRevenue))
        breakEven == NumDiv(Number(Get(pws, "initialInvestment")), monthlyProfit)
        profitMargin == NumMul(NumDiv(annualProfit, annualRevenue), Num(100))
    IN  [annualRevenue |-> annualRevenue,
         annualProfit |-> annualProfit,
         roi |-> roi,
         monthlyProfit |-> monthlyProfit,
         breakEven |-> breakEven,
         profitMargin |-> profitMargin]

\* POST /api/analysis, the locals from annualRevenue to profitMargin
PostAnalysis_unrounded(pws, adj) ==
    LET annualRevenue == NumMul(adj.adjustedMonthlyRevenue, Num(12))
        annualFixedCosts == NumMul(adj.adjustedMonthlyFixedCosts, Num(12))
        annualVariableCosts == NumMul(NumDiv(adj.adjustedVariableCosts, Num(100)), annualRevenue)
        totalAnnualCosts == NumAdd(annualFixedCosts, annualVariableCosts)
        annualProfit == NumSub(annualRevenue, totalAnnualCosts)
        roi == NumMul(NumDiv(annualProfit, Number(Get(pws, "initialInvestment"))), Num(100))
        monthlyProfit ==
            NumSub(NumSub(adj.adjustedMonthlyRevenue, adj.adjustedMonthlyFixedCosts),
                   NumMul(NumDiv(adj.adjustedVariableCosts, Num(100)), adj.adjustedMonthlyRevenue))
        breakEven == NumDiv(Number(Get(pws, "initialInvestment")), monthlyProfit)
        profitMargin == NumMul(NumDiv(annualProfit, annualRevenue), Num(100))
    IN  [annualRevenue |-> annualRevenue,
         annualProfit |-> annualProfit,
         roi |-> roi,
         monthlyProfit |-> monthlyProfit,
         breakEven |-> breakEven,
         profitMargin |-> profitMargin]

\* POST /api/analysis, "Risk level based on scenario"
PostAnalysis_riskLevel(scenario) ==
    IF scenario.name = "Optimistic" THEN "Low"
    ELSE IF scenario.name = "Realistic" THEN "Medium"
    ELSE "High"

\* Fault variant: a non-finite roi is reported as 0.
PostAnalysis_financialMetrics_finiteRoi(u, riskLevel) ==
    [roi |-> IF isFinite(u.roi) THEN parseFloat(toFixed(u.roi, 1)) ELSE Num(0),
     breakEven |-> parseFloat(toFixed(u.breakEven, 1)),
     netProfit |-> parseFloat(toFixed(u.annualProfit, 2)),
     profitMargin |-> parseFloat(toFixed(u.profitMargin, 1)),
     riskLevel |-> riskLevel]

\* POST /api/analysis, the financialMetrics object
PostAnalysis_financialMetrics(u, riskLevel) ==
    [roi |-> parseFloat(toFixed(u.roi, 1)),
     breakEven |-> parseFloat(toFixed(u.breakEven, 1)),
     netProfit |-> parseFloat(toFixed(u.annualProfit, 2)),
     profitMargin |-> parseFloat(toFixed(u.profitMargin, 1)),
     riskLevel |-> riskLevel]

\* POST /api/analysis, the locals of the Array.from callback at index i
PostAnalysis_month(adj, i) ==
    LET month == i + 1
        monthRevenue == NumMul(adj.adjustedMonthlyRevenue,
                               NumAdd(Num(1), NumMul(Norm(2, 100), Num(i))))
        monthExpenses == NumAdd(adj.adjustedMonthlyFixedCosts,
                                NumMul(NumDiv(adj.adjustedVariableCosts, Num(100)), monthRevenue))
        monthProfit == NumSub(monthRevenue, monthExpenses)
    IN  [month |-> month, monthRevenue |-> monthRevenue,
         monthExpenses |-> monthExpenses, monthProfit |-> monthProfit]

\* Fault variant: the emitted profit is the difference of the rounded revenue and expenses.
PostAnalysis_entry_roundedDifference(m) ==
    [month |-> m.month,
     revenue |-> parseFloat(toFixed(m.monthRevenue, 2)),
     expenses |-> parseFloat(toFixed(m.monthExpenses, 2)),
     profit |-> NumSub(parseFloat(toFixed(m.monthRevenue, 2)),
                      parseFloat(toFixed(m.monthExpenses, 2)))]

\* POST /api/analysis, the object the callback returns
PostAnalysis_entry(m) ==
    [month |-> m.month,
     revenue |-> parseFloat(toFixed(m.monthRevenue, 2)),
     expenses |-> parseFloat(toFixed(m.monthExpenses, 2)),
     profit |-> parseFloat(toFixed(m.monthProfit, 2))]

\* POST /api/analysis, Array.from({ length: 12 }, ...) before rounding
PostAnalysis_months(adj) ==
    [k \in 1..12 |-> PostAnalysis_month(adj, k - 1)]

\* POST /api/analysis, the object the scenarios.map callback returns
PostAnalysis_scenarioCalculation(pws, scenario) ==
    LET adj == PostAnalysis_adjusted(pws, scenario)
        ms == PostAnalysis_months(adj)
    IN  [scenario |-> scenario,
         financialMetrics |-> PostAnalysis_financialMetrics(PostAnalysis_unrounded(pws, adj),
                                                       PostAnalysis_riskLevel(scenario)),
         monthlyProjections |-> [k \in 1..Len(ms) |-> PostAnalysis_entry(ms[k])]]

\* Fault variant: the entries come out in reverse order.
PostAnalysis_scenarioCalculations_reversed(pws) ==
    [k \in 1..Len(pws.scenarios) |-> PostAnalysis_scenarioCalculation(pws, pws.scenarios[Len(pws.scenarios) + 1 - k])]

\* POST /api/analysis, projectWithScenarios.scenarios.map(...)
PostAnalysis_scenarioCalculations(pws) ==
    [k \in 1..Len(pws.scenarios) |-> PostAnalysis_scenarioCalculation(pws, pws.scenarios[k])]

\* Fault variant: the fixed costs carry the first scenario's cost adjustment.
PostAnalysis_costBreakdown_adjusted(pws) ==
    [initialInvestment |-> Number(Get(pws, "initialInvestment")),
     fixedCosts |-> IF pws.scenarios = <<>>
                   THEN NumMul(Number(Get(pws, "monthlyFixedCosts")), Num(12))
                   ELSE NumMul(PostAnalysis_adjusted(pws, pws.scenarios[1]).adjustedMonthlyFixedCosts,
                               Num(12)),
     variableCosts |-> NumMul(NumMul(Number(Get(pws, "expectedMonthlyRevenue")),
                                     NumDiv(Number(Get(pws, "variableCosts")), Num(100))),
                              Num(12))]

\* Fault variant: the fixed costs are scaled by a counter shared between requests.
PostAnalysis_costBreakdown_counted(pws) ==
    [initialInvestment |-> Number(Get(pws, "initialInvestment")),
     fixedCosts |-> NumMul(Number(Get(pws, "monthlyFixedCosts")), Num(12 * (nextScenarioId - 3))),
     variableCosts |-> NumMul(NumMul(Number(Get(pws, "expectedMonthlyRevenue")),
                                     NumDiv(Number(Get(pws, "variableCosts")), Num(100))),
                              Num(12))]

\* POST /api/analysis, "Generate cost breakdown"
PostAnalysis_costBreakdown(pws) ==
    [initialInvestment |-> Number(Get(pws, "initialInvestment")),
     fixedCosts |-> NumMul(Number(Get(pws, "monthlyFixedCosts")), Num(12)),
     variableCosts |-> NumMul(NumMul(Number(Get(pws, "expectedMonthlyRevenue")),
                                     NumDiv(Number(Get(pws, "variableCosts")), Num(100))),
                              Num(12))]

(***************************************************************************)
(* POST /api/report: the handler's own copy of the calculations            *)
(***************************************************************************)
\* POST /api/report, "Adjust values based on scenario parameters"
PostReport_adjusted(pws, scenario) ==
    LET growthMultiplier == NumAdd(Num(1), NumDiv(Number(Get(scenario, "growthRate")), Num(100)))
        costMultiplier == NumAdd(Num(1), NumDiv(Number(Get(scenario, "costAdjustment")), Num(100)))
    IN  [adjustedMonthlyRevenue |-> NumMul(Number(Get(pws, "expectedMonthlyRevenue")), growthMultiplier),
         adjustedMonthlyFixedCosts |-> NumMul(Number(Get(pws, "monthlyFixedCosts")), costMultiplier),
         adjustedVariableCosts |-> NumMul(Number(Get(pws, "variableCosts")), costMultiplier)]

\* Fault variant: the monthly profit of the break-even leaves out the variable costs.
PostReport_unrounded_grossMonthlyProfit(pws, adj) ==
    LET annualRevenue == NumMul(adj.adjustedMonthlyRevenue, Num(12))
        annualFixedCosts == NumMul(adj.adjustedMonthlyFixedCosts, Num(12))
        annualVariableCosts == NumMul(NumDiv(adj.adjustedVariableCosts, Num(100)), annualRevenue)
        totalAnnualCosts == NumAdd(annualFixedCosts, annualVariableCosts)
        annualProfit == NumSub(annualRevenue, totalAnnualCosts)
        roi == NumMul(NumDiv(annualProfit, Number(Get(pws, "initialInvestment"))), Num(100))
        monthlyProfit ==
            NumSub(adj.adjustedMonthlyRevenue, adj.adjustedMonthlyFixedCosts)
        breakEven == NumDiv(Number(Get(pws, "initialInvestment")), monthlyProfit)
        profitMargin == NumMul(NumDiv(annualProfit, annualRevenue), Num(100))
    IN  [annualRevenue |-> annualRevenue,
         annualProfit |-> annualProfit,
         roi |-> roi,
         monthlyProfit |-> monthlyProfit,
         breakEven |-> breakEven,
         profitMargin |-> profitMargin]

\* POST /api/report, the locals from annualRevenue to profitMargin
PostReport_unrounded(pws, adj) ==
    LET annualRevenue == NumMul(adj.adjustedMonthlyRevenue, Num(12))
        annualFixedCosts == NumMul(adj.adjustedMonthlyFixedCosts, Num(12))
        annualVariableCosts == NumMul(NumDiv(adj.adjustedVariableCosts, Num(100)), annualRevenue)
        totalAnnualCosts == NumAdd(annualFixedCosts, annualVariableCosts)
        annualProfit == NumSub(annualRevenue, totalAnnualCosts)
        roi == NumMul(NumDiv(annualProfit, Number(Get(pws, "initialInvestment"))), Num(100))
        monthlyProfit ==
            NumSub(NumSub(adj.adjustedMonthlyRevenue, adj.adjustedMonthlyFixedCosts),
                   NumMul(NumDiv(adj.adjustedVariableCosts, Num(100)), adj.adjustedMonthlyRevenue))
        breakEven == NumDiv(Number(Get(pws, "initialInvestment")), monthlyProfit)
        profitMargin == NumMul(NumDiv(annualProfit, annualRevenue), Num(100))
    IN  [annualRevenue |-> annualRevenue,
         annualProfit |-> annualProfit,
         roi |-> roi,
         monthlyProfit |-> monthlyProfit,
         breakEven |-> breakEven,
         profitMargin |-> profitMargin]

\* Fault variant: a name outside the three defaults is rated Medium.
PostReport_riskLevel_custom(scenario) ==
    IF scenario.name = "Optimistic" THEN "Low"
    ELSE IF scenario.name = "Realistic" THEN "Medium"
    ELSE IF scenario.name = "Pessimistic" THEN "High" ELSE "Medium"

\* POST /api/report, "Risk level based on scenario"
PostReport_riskLevel(scenario) ==
    IF scenario.name = "Optimistic" THEN "Low"
    ELSE IF scenario.name = "Realistic" THEN "Medium"
    ELSE "High"

\* POST /api/report, the financialMetrics object
PostReport_financialMetrics(u, riskLevel) ==
    [roi |-> parseFloat(toFixed(u.roi, 1)),
     breakEven |-> parseFloat(toFixed(u.breakEven, 1)),
     netProfit |-> parseFloat(toFixed(u.annualProfit, 2)),
     profitMargin |-> parseFloat(toFixed(u.profitMargin, 1)),
     riskLevel |-> riskLevel]

\* Fault variant: the first month already carries one growth step.
PostReport_month_growthFromFirst(adj, i) ==
    LET month == i + 1
        monthRevenue == NumMul(adj.adjustedMonthlyRevenue,
                               NumAdd(Num(1), NumMul(Norm(2, 100), Num(month))))
        monthExpenses == NumAdd(adj.adjustedMonthlyFixedCosts,
                                NumMul(NumDiv(adj.adjustedVariableCosts, Num(100)), monthRevenue))
        monthProfit == NumSub(monthRevenue, monthExpenses)
    IN  [month |-> month, monthRevenue |-> monthRevenue,
         monthExpenses |-> monthExpenses, monthProfit |-> monthProfit]

\* POST /api/report, the locals of the Array.from callback at index i
PostReport_month(adj, i) ==
    LET month == i + 1
        monthRevenue == NumMul(adj.adjustedMonthlyRevenue,
                               NumAdd(Num(1), NumMul(Norm(2, 100), Num(i))))
        monthExpenses == NumAdd(adj.adjustedMonthlyFixedCosts,
                                NumMul(NumDiv(adj.adjustedVariableCosts, Num(100)), monthRevenue))
        monthProfit == NumSub(monthRevenue, monthExpenses)
    IN  [month |-> month, monthRevenue |-> monthRevenue,
         monthExpenses |-> monthExpenses, monthProfit |-> monthProfit]

\* POST /api/report, the object the callback returns
PostReport_entry(m) ==
    [month |-> m.month,
     revenue |-> parseFloat(toFixed(m.monthRevenue, 2)),
     expenses |-> parseFloat(toFixed(m.monthExpenses, 2)),
     profit |-> parseFloat(toFixed(m.monthProfit, 2))]

\* Fault variant: the projection stops after eleven months.
PostReport_months_eleven(adj) ==
    [k \in 1..11 |-> PostReport_month(adj, k - 1)]

\* POST /api/report, Array.from({ length: 12 }, ...) before rounding
PostReport_months(adj) ==
    [k \in 1..12 |-> PostReport_month(adj, k - 1)]

\* POST /api/report, the object the scenarios.map callback returns
PostReport_scenarioCalculation(pws, scenario) ==
    LET adj == PostReport_adjusted(pws, scenario)
        ms == PostReport_months(adj)
    IN  [scenario |-> scenario,
         financialMetrics |-> PostReport_financialMetrics(PostReport_unrounded(pws, adj),
                                                       PostReport_riskLevel(scenario)),
         monthlyProjections |-> [k \in 1..Len(ms) |-> PostReport_entry(ms[k])]]

\* POST /api/report, projectWithScenarios.scenarios.map(...)
PostReport_scenarioCalculations(pws) ==
    [k \in 1..Len(pws.scenarios) |-> PostReport_scenarioCalculation(pws, pws.scenarios[k])]

(***************************************************************************)
(* Bounds and the values requests are drawn from                           *)
(***************************************************************************)
\* The scenarios serial stops here: no insert is attempted beyond it.
MaxScenarioId == 4

Users == {1, 2}

\* The handlers treat every user id alike, so projects are created by one
\* user; the other one is the user who owns nothing.
Creators == {1}

\* Request bodies of POST and PUT /api/projects; the second one carries the
\* id of another user.
ProjectBodies ==
    { [timeHorizon |-> 12, initialInvestment |-> 50000, monthlyFixedCosts |-> 5000,
       variableCosts |-> 20, expectedMonthlyRevenue |-> 15000],
      [timeHorizon |-> 24, initialInvestment |-> 0, monthlyFixedCosts |-> 20000,
       variableCosts |-> 20, expectedMonthlyRevenue |-> 15000, userId |-> 2] }

\* Request bodies of PUT /api/scenarios/:id.
ScenarioUpdateBodies ==
    { [enabled |-> FALSE],
      [enabled |-> TRUE, growthRate |-> 8, costAdjustment |-> 15] }

\* Request bodies of POST /api/scenarios, for project id pid.
ScenarioCreateBodies(pid) ==
    { [projectId |-> pid, name |-> "Custom", enabled |-> FALSE,
       growthRate |-> 25, costAdjustment |-> -5],
      [projectId |-> pid, growthRate |-> 25] }

\* Request bodies of PUT /api/projects/:id that supply some of the fields;
\* the body carries the id of another user.
PartialProjectBodies ==
    { [monthlyFixedCosts |-> 20000, userId |-> 2] }

\* The request bodies of POST /api/projects that carry no userId.
FullProjectBodies == { body \in ProjectBodies : "userId" \notin DOMAIN body }

\* Request bodies of PUT /api/scenarios/:id without growthRate and
\* costAdjustment.
PartialScenarioBodies ==
    { body \in ScenarioUpdateBodies : "growthRate" \notin DOMAIN body }

\* The questions and answers of POST /api/projects/update-with-answers.
AnswerKinds == {"absent", "blank", "given"}

\* The objects the content of the completion call of update-with-answers
\* parses to.
AiUpdates ==
    { [userId |-> 2, variableCosts |-> 30] }

\* What the completion call does: it throws (<<>>), or it answers.
AiUpdateOutcomes == {<<>>} \cup { <<updates>> : updates \in AiUpdates }

\* What the AI text service does with a call: it answers, it fails inside
\* the service wrapper (which then answers with its own defaults), or the
\* call throws.
AiOutcomes == {"ok", "caught", "throws"}

\* scenarioType of POST /api/report: absent, invalid.
ScenarioTypes == {"undefined", "Quarterly"}

\* Arguments of the calculation harness.
InvestmentValues == {0, 50000}
FixedCostValues == {5000, 20000}
VariableCostValues == {20}
RevenueValues == {0, 15000}
TimeHorizonValues == {6, 12, 24}
ScenarioNames == {"Realistic", "Optimistic", "Pessimistic", "Custom"}
GrowthRateValues == {8, 15, 25}
CostAdjustmentValues == {-5, 0, 15}

(***************************************************************************)
(* shared/schema: transformProjectData, transformScenarioData              *)
(***************************************************************************)
Has(data, f) == f \in DOMAIN data

\* { ...a, ...b }
Spread(a, b) == [f \in DOMAIN a \cup DOMAIN b |-> IF f \in DOMAIN b THEN b[f] ELSE a[f]]

\* data without the key f
Omit(data, f) == [g \in DOMAIN data \ {f} |-> data[g]]

\* The text columns name, goal and industry take no part in any calculation
\* and are left out of the rows.
transformProjectData(data) ==
    LET transformedData ==
            [timeHorizon |-> IF Has(data, "timeHorizon") THEN data.timeHorizon ELSE 12,
             initialInvestment |->
                 IF Has(data, "initialInvestment") THEN data.initialInvestment ELSE 0,
             monthlyFixedCosts |->
                 IF Has(data, "monthlyFixedCosts") THEN data.monthlyFixedCosts ELSE 0,
             variableCosts |-> IF Has(data, "variableCosts") THEN data.variableCosts ELSE 0,
             expectedMonthlyRevenue |->
                 IF Has(data, "expectedMonthlyRevenue") THEN data.expectedMonthlyRevenue ELSE 0]
    IN  IF Has(data, "userId")
        THEN Spread(transformedData, [userId |-> data.userId])
        ELSE transformedData

transformScenarioData(data) ==
    LET ids == IF Has(data, "projectId") THEN [projectId |-> data.projectId] ELSE <<>>
        names == IF Has(data, "name") THEN [name |-> data.name] ELSE <<>>
        flags == IF Has(data, "enabled") THEN [enabled |-> data.enabled] ELSE <<>>
    IN  Spread(Spread(Spread(ids, names), flags),
               [growthRate |-> IF Has(data, "growthRate") THEN data.growthRate ELSE 0,
                costAdjustment |->
                    IF Has(data, "costAdjustment") THEN data.costAdjustment ELSE 0])

(***************************************************************************)
(* DatabaseStorage, over explicit tables                                   *)
(***************************************************************************)
\* createProject: the row inserted under serial id
createProject(id, insertProject) ==
    Spread([id |-> id, userId |-> 0], transformProjectData(insertProject))

\* updateProject: the row after UPDATE ... SET
updateProject(row, projectUpdate) ==
    Spread(row, transformProjectData(projectUpdate))

\* createScenario: the row inserted under serial id
createScenario(id, insertScenario) ==
    LET transformedData == transformScenarioData(insertScenario)
    IN  [id |-> id,
         projectId |-> transformedData.projectId,
         name |-> IF Has(transformedData, "name") THEN transformedData.name
                  ELSE "Unnamed Scenario",
         enabled |-> IF Has(transformedData, "enabled") THEN transformedData.enabled ELSE TRUE,
         growthRate |-> transformedData.growthRate,
         costAdjustment |-> transformedData.costAdjustment]

\* updateScenario: the row after UPDATE ... SET updateObj
updateScenario(row, scenarioUpdate) ==
    LET transformedData == transformScenarioData(scenarioUpdate)
        updateObj == [f \in DOMAIN transformedData \cap
                            {"name", "enabled", "growthRate", "costAdjustment"}
                        |-> transformedData[f]]
    IN  Spread(row, updateObj)

\* getScenarios: SELECT ... WHERE project_id = projectId, in table order
getScenarios(table, projectId) ==
    SelectSeq(table, LAMBDA row : row.projectId = projectId)

\* getScenarioById: the position of the row in the table, 0 when there is none
getScenarioById(table, id) ==
    IF \E k \in 1..Len(table) : table[k].id = id
    THEN CHOOSE k \in 1..Len(table) : table[k].id = id
    ELSE 0

\* getProjectWithScenarios, for a stored project
getProjectWithScenarios(rows, table, projectId) ==
    Spread(rows[projectId], [scenarios |-> getScenarios(table, projectId)])

\* deleteProject: DELETE FROM scenarios WHERE projectId = id
deleteProject_scenarios(table, id) ==
    LET keep(row) == row.projectId # id
    IN  SelectSeq(table, keep)

\* deleteScenario: DELETE FROM scenarios WHERE id = id
deleteScenario(table, id) ==
    LET keep(row) == row.id # id
    IN  SelectSeq(table, keep)

(***************************************************************************)
(* Request handlers of server/routes.ts.  Every request comes from an      *)
(* authenticated user, so req.user.id is `user'.  A handler runs as one    *)
(* step, once the response of the previous request has been taken.         *)
(***************************************************************************)
Respond(status, kind, body) == [status |-> status, kind |-> kind, body |-> body]

Message(text) == [message |-> text]

NoResponse == Respond(0, "none", Message(""))

NoAiRequest == [fn |-> "none", scenarioCalculations |-> <<>>]

\* Fault variant: the handler's catch block leaves the recommendations empty
PostAnalysis_recommendations_noFallback(ai) ==
    IF ai = "ok" THEN <<"recommendation from the service">>
    ELSE IF ai = "caught"
    THEN <<"Consider phasing the initial investment to reduce upfront risk.",
           "Negotiate fixed-price contracts for key services to minimize variable cost risk.",
           "Implement a tiered pricing strategy to improve profit margins.",
           "Focus on improving customer retention to reduce marketing costs.",
           "Explore partnerships to share fixed costs and expand revenue streams.">>
    ELSE <<>>

\* The recommendations POST /api/analysis ends with, by what the service did:
\* the service's answer, the five defaults of its own catch block, or the
\* three defaults of the handler's catch block.
PostAnalysis_recommendations(ai) ==
    IF ai = "ok" THEN <<"recommendation from the service">>
    ELSE IF ai = "caught"
    THEN <<"Consider phasing the initial investment to reduce upfront risk.",
           "Negotiate fixed-price contracts for key services to minimize variable cost risk.",
           "Implement a tiered pricing strategy to improve profit margins.",
           "Focus on improving customer retention to reduce marketing costs.",
           "Explore partnerships to share fixed costs and expand revenue streams.">>
    ELSE <<"Consider phasing the initial investment to reduce upfront risk.",
           "Negotiate fixed-price contracts for key services to minimize variable cost risk.",
           "Implement a tiered pricing strategy to improve profit margins.">>

\* Fault variant: the userId of the request body wins over the session's
PostProject_bodyUserId(user, body) ==
    /\ response = NoResponse
    /\ nextScenarioId + 2 <= MaxScenarioId
    /\ LET transformedData == transformProjectData(Spread([userId |-> user], body))
           newProject == createProject(nextProjectId, transformedData)
           scenarioNames == <<"Realistic", "Optimistic", "Pessimistic">>
           growthRates == <<15, 25, 8>>
           costAdjustments == <<0, -5, 15>>
           created == [i \in 1..Len(scenarioNames) |->
                          createScenario(nextScenarioId + i - 1,
                                         [projectId |-> newProject.id,
                                          name |-> scenarioNames[i],
                                          enabled |-> TRUE,
                                          growthRate |-> growthRates[i],
                                          costAdjustment |-> costAdjustments[i]])]
       IN  /\ projects' = (newProject.id :> newProject) @@ projects
           /\ scenarios' = scenarios \o created
           /\ nextProjectId' = nextProjectId + 1
           /\ nextScenarioId' = nextScenarioId + Len(scenarioNames)
           /\ response' = Respond(201, "project",
                                  getProjectWithScenarios(projects', scenarios', newProject.id))
    /\ aiRequest' = NoAiRequest
    /\ UNCHANGED calcVars

\* POST /api/projects
PostProject(user, body) ==
    /\ response = NoResponse
    /\ nextScenarioId + 2 <= MaxScenarioId
    /\ LET transformedData == transformProjectData(Spread(body, [userId |-> user]))
           newProject == createProject(nextProjectId, transformedData)
           scenarioNames == <<"Realistic", "Optimistic", "Pessimistic">>
           growthRates == <<15, 25, 8>>
           costAdjustments == <<0, -5, 15>>
           created == [i \in 1..Len(scenarioNames) |->
                          createScenario(nextScenarioId + i - 1,
                                         [projectId |-> newProject.id,
                                          name |-> scenarioNames[i],
                                          enabled |-> TRUE,
                                          growthRate |-> growthRates[i],
                                          costAdjustment |-> costAdjustments[i]])]
       IN  /\ projects' = (newProject.id :> newProject) @@ projects
           /\ scenarios' = scenarios \o created
           /\ nextProjectId' = nextProjectId + 1
           /\ nextScenarioId' = nextScenarioId + Len(scenarioNames)
           /\ response' = Respond(201, "project",
                                  getProjectWithScenarios(projects', scenarios', newProject.id))
    /\ aiRequest' = NoAiRequest
    /\ UNCHANGED calcVars

\* PUT /api/projects/:id
PutProject(user, id, body) ==
    /\ response = NoResponse
    /\ IF id \notin DOMAIN projects
       THEN /\ response' = Respond(404, "error", Message("Project not found"))
            /\ UNCHANGED projects
       ELSE IF projects[id].userId # user
       THEN /\ response' = Respond(403, "error", Message("Access denied"))
            /\ UNCHANGED projects
       ELSE LET safeData == IF Has(body, "userId") THEN Omit(body, "userId") ELSE body
                transformedData == transformProjectData(safeData)
                updatedProject == updateProject(projects[id], transformedData)
            IN  /\ projects' = [projects EXCEPT ![id] = updatedProject]
                /\ response' = Respond(200, "project", updatedProject)
    /\ aiRequest' = NoAiRequest
    /\ UNCHANGED <<scenarios, nextProjectId, nextScenarioId, calcVars>>

\* DELETE /api/projects/:id
DeleteProject(user, id) ==
    /\ response = NoResponse
    /\ IF id \notin DOMAIN projects
       THEN /\ response' = Respond(404, "error", Message("Project not found"))
            /\ UNCHANGED <<projects, scenarios>>
       ELSE IF projects[id].userId # user
       THEN /\ response' = Respond(403, "error", Message("Access denied"))
            /\ UNCHANGED <<projects, scenarios>>
       ELSE /\ scenarios' = deleteProject_scenarios(scenarios, id)
            /\ projects' = [k \in DOMAIN projects \ {id} |-> projects[k]]
            /\ response' = Respond(204, "empty", Message(""))
    /\ aiRequest' = NoAiRequest
    /\ UNCHANGED <<nextProjectId, nextScenarioId, calcVars>>

\* POST /api/scenarios
PostScenario(user, body) ==
    /\ response = NoResponse
    /\ nextScenarioId <= MaxScenarioId
    /\ LET transformedData == transformScenarioData(body)
       IN  IF ~(Has(transformedData, "projectId") /\ Has(transformedData, "name"))
           THEN /\ response' = Respond(400, "error", Message("Invalid scenario data"))
                /\ UNCHANGED <<scenarios, nextScenarioId>>
           ELSE IF transformedData.projectId \notin DOMAIN projects
           THEN /\ response' = Respond(404, "error", Message("Project not found"))
                /\ UNCHANGED <<scenarios, nextScenarioId>>
           ELSE IF projects[transformedData.projectId].userId # user
           THEN /\ response' = Respond(403, "error", Message("Access denied"))
                /\ UNCHANGED <<scenarios, nextScenarioId>>
           ELSE LET newScenario == createScenario(nextScenarioId, transformedData)
                IN  /\ scenarios' = Append(scenarios, newScenario)
                    /\ nextScenarioId' = nextScenarioId + 1
                    /\ response' = Respond(201, "scenario", newScenario)
    /\ aiRequest' = NoAiRequest
    /\ UNCHANGED <<projects, nextProjectId, calcVars>>

\* PUT /api/scenarios/:id
PutScenario(user, id, body) ==
    /\ response = NoResponse
    /\ LET k == getScenarioById(scenarios, id)
       IN  IF k = 0
           THEN /\ response' = Respond(404, "error", Message("Scenario not found"))
                /\ UNCHANGED scenarios
           ELSE IF scenarios[k].projectId \notin DOMAIN projects
           THEN /\ response' = Respond(404, "error", Message("Project not found"))
                /\ UNCHANGED scenarios
           ELSE IF projects[scenarios[k].projectId].userId # user
           THEN /\ response' = Respond(403, "error", Message("Access denied"))
                /\ UNCHANGED scenarios
           ELSE LET transformedData == transformScenarioData(body)
                    updatedScenario == updateScenario(scenarios[k], transformedData)
                IN  /\ scenarios' = [scenarios EXCEPT ![k] = updatedScenario]
                    /\ response' = Respond(200, "scenario", updatedScenario)
    /\ aiRequest' = NoAiRequest
    /\ UNCHANGED <<projects, nextProjectId, nextScenarioId, calcVars>>

\* DELETE /api/scenarios/:id
DeleteScenario(user, id) ==
    /\ response = NoResponse
    /\ LET k == getScenarioById(scenarios, id)
       IN  IF k = 0
           THEN /\ response' = Respond(404, "error", Message("Scenario not found"))
                /\ UNCHANGED scenarios
           ELSE IF scenarios[k].projectId \notin DOMAIN projects
           THEN /\ response' = Respond(404, "error", Message("Project not found"))
                /\ UNCHANGED scenarios
           ELSE IF projects[scenarios[k].projectId].userId # user
           THEN /\ response' = Respond(403, "error", Message("Access denied"))
                /\ UNCHANGED scenarios
           ELSE /\ scenarios' = deleteScenario(scenarios, id)
                /\ response' = Respond(204, "empty", Message(""))
    /\ aiRequest' = NoAiRequest
    /\ UNCHANGED <<projects, nextProjectId, nextScenarioId, calcVars>>

\* POST /api/analysis; projectId 0 stands for a body without projectId
PostAnalysis(user, projectId) ==
    /\ response = NoResponse
    /\ IF projectId = 0
       THEN /\ response' = Respond(400, "error", Message("Project ID is required"))
            /\ aiRequest' = NoAiRequest
       ELSE IF projectId \notin DOMAIN projects
       THEN /\ response' = Respond(404, "error", Message("Project not found"))
            /\ aiRequest' = NoAiRequest
       ELSE IF projects[projectId].userId # user
       THEN /\ response' = Respond(403, "error", Message("Access denied"))
            /\ aiRequest' = NoAiRequest
       ELSE LET projectWithScenarios == getProjectWithScenarios(projects, scenarios, projectId)
                scenarioCalculations == PostAnalysis_scenarioCalculations(projectWithScenarios)
                costBreakdown == PostAnalysis_costBreakdown(projectWithScenarios)
            IN  /\ aiRequest' = [fn |-> "generateRecommendations",
                                 scenarioCalculations |-> scenarioCalculations]
                /\ \E ai \in AiOutcomes :
                       response' = Respond(200, "analysis",
                                           [project |-> projectWithScenarios,
                                            scenarios |-> scenarioCalculations,
                                            costBreakdown |-> costBreakdown,
                                            recommendations |->
                                                PostAnalysis_recommendations(ai)])
    /\ UNCHANGED <<projects, scenarios, nextProjectId, nextScenarioId, calcVars>>

\* POST /api/report; projectId 0 stands for a body without projectId
PostReport(user, projectId, scenarioType) ==
    /\ response = NoResponse
    /\ IF projectId = 0
       THEN /\ response' = Respond(400, "error", Message("Project ID is required"))
            /\ aiRequest' = NoAiRequest
       ELSE IF projectId \notin DOMAIN projects
       THEN /\ response' = Respond(404, "error", Message("Project not found"))
            /\ aiRequest' = NoAiRequest
       ELSE IF projects[projectId].userId # user
       THEN /\ response' = Respond(403, "error", Message("Access denied"))
            /\ aiRequest' = NoAiRequest
       ELSE LET projectWithScenarios == getProjectWithScenarios(projects, scenarios, projectId)
                scenarioCalculations == PostReport_scenarioCalculations(projectWithScenarios)
            IN  IF scenarioType \notin {"undefined", "Optimistic", "Realistic", "Pessimistic"}
                THEN /\ response' = Respond(400, "error", Message("Invalid scenario type"))
                     /\ aiRequest' = NoAiRequest
                ELSE /\ aiRequest' = [fn |-> "generateAnalysisReport",
                                      scenarioCalculations |-> scenarioCalculations]
                     /\ \E ai \in AiOutcomes :
                            response' =
                                IF ai = "throws"
                                THEN Respond(500, "error",
                                             Message("Failed to generate AI report"))
                                ELSE Respond(200, "report",
                                             [reportMarkdown |-> ai,
                                              scenarioType |-> scenarioType])
    /\ UNCHANGED <<projects, scenarios, nextProjectId, nextScenarioId, calcVars>>

(***************************************************************************)
(* The server: an empty store, then any sequence of requests               *)
(***************************************************************************)
\* No storage call is in progress.
NoCalls == [deleteProject |-> "idle", createScenario |-> "idle", id |-> 0,
            before |-> <<>>, inserted |-> 0]

\* No RevenueExpensesChart is rendered.
NoChart == [monthlyData |-> <<>>, i |-> 0, cumulativeProfit |-> Num(0),
            breakEvenMonth |-> 0]

\* The argument of a formatter: a number, a string (kept as the number
\* Number() reads from it), null or undefined.
NoValue == [type |-> "undefined"]

\* A formatter's text: prefix, the digits toFixed printed, suffix.
NoText == [fn |-> "none", text |-> <<>>]

\* outcome is how a call ended: "returned", or "threw" for an exception; no
\* statement of the calculation code throws.
NoCall ==
    [call |-> "none", outcome |-> "none", adjusted |-> <<>>, unrounded |-> <<>>,
     months |-> <<>>, metrics |-> <<>>, projections |-> <<>>, costBreakdown |-> <<>>]

IdleProject ==
    [id |-> 1, userId |-> 1, timeHorizon |-> 12, initialInvestment |-> 50000,
     monthlyFixedCosts |-> 5000, variableCosts |-> 20, expectedMonthlyRevenue |-> 15000]

IdleScenario ==
    [id |-> 1, projectId |-> 1, name |-> "Realistic", enabled |-> TRUE,
     growthRate |-> 15, costAdjustment |-> 0]

Init ==
    /\ projects = <<>>
    /\ scenarios = <<>>
    /\ nextProjectId = 1
    /\ nextScenarioId = 1
    /\ response = NoResponse
    /\ aiRequest = NoAiRequest
    /\ cProject = IdleProject
    /\ cScenario = IdleScenario
    /\ cOut = NoCall
    /\ fValue = NoValue
    /\ fText = NoText
    /\ calls = NoCalls
    /\ chart = NoChart
    /\ selectedMonths = <<3, 6, 9, 12>>

\* Ids a request may name: every id handed out so far (stored or deleted
\* since); 0 in a request for analysis or a report is a body without projectId.
ProjectIds == 1..(nextProjectId - 1)
ScenarioIds == 1..(nextScenarioId - 1)

\* Fault variant: the project is sent back without the ownership check
GetProject_unchecked(user, id) ==
    /\ response = NoResponse
    /\ IF id \notin DOMAIN projects
       THEN response' = Respond(404, "error", Message("Project not found"))
       ELSE response' = Respond(200, "project",
                                getProjectWithScenarios(projects, scenarios, id))
    /\ aiRequest' = NoAiRequest
    /\ UNCHANGED <<projects, scenarios, nextProjectId, nextScenarioId, calcVars>>

\* GET /api/projects/:id
GetProject(user, id) ==
    /\ response = NoResponse
    /\ IF id \notin DOMAIN projects
       THEN response' = Respond(404, "error", Message("Project not found"))
       ELSE IF projects[id].userId # user
       THEN response' = Respond(403, "error", Message("Access denied"))
       ELSE response' = Respond(200, "project",
                                getProjectWithScenarios(projects, scenarios, id))
    /\ aiRequest' = NoAiRequest
    /\ UNCHANGED <<projects, scenarios, nextProjectId, nextScenarioId, calcVars>>

\* GET /api/scenarios/project/:projectId
GetProjectScenarios(user, projectId) ==
    /\ response = NoResponse
    /\ IF projectId \notin DOMAIN projects
       THEN response' = Respond(404, "error", Message("Project not found"))
       ELSE IF projects[projectId].userId # user
       THEN response' = Respond(403, "error", Message("Access denied"))
       ELSE response' = Respond(200, "scenarios", getScenarios(scenarios, projectId))
    /\ aiRequest' = NoAiRequest
    /\ UNCHANGED <<projects, scenarios, nextProjectId, nextScenarioId, calcVars>>

\* POST /api/projects/update-with-answers; projectId 0 stands for a body
\* without projectId, answers is "absent" (no questions or no answers in the
\* body), "blank" (every answer empty) or "given"; ai is what the completion
\* call does: it throws (<<>>), or its content parses to the object ai[1].
UpdateWithAnswers(user, projectId, answers, ai) ==
    /\ response = NoResponse
    /\ IF projectId = 0 \/ answers = "absent"
       THEN /\ response' = Respond(400, "error",
                                   Message("ProjectId, questions, and answers are required"))
            /\ aiRequest' = NoAiRequest
            /\ UNCHANGED projects
       ELSE IF projectId \notin DOMAIN projects
       THEN /\ response' = Respond(404, "error", Message("Project not found"))
            /\ aiRequest' = NoAiRequest
            /\ UNCHANGED projects
       ELSE IF projects[projectId].userId # user
       THEN /\ response' = Respond(403, "error", Message("Access denied"))
            /\ aiRequest' = NoAiRequest
            /\ UNCHANGED projects
       ELSE IF answers = "blank"
       THEN /\ response' = Respond(400, "error", Message("No valid answers provided"))
            /\ aiRequest' = NoAiRequest
            /\ UNCHANGED projects
       ELSE /\ aiRequest' = [fn |-> "chat.completions.create",
                             scenarioCalculations |-> <<>>]
            /\ IF ai = <<>>
               THEN /\ response' = Respond(500, "error",
                                           Message("Failed to update project with answers"))
                    /\ UNCHANGED projects
               ELSE LET updates == ai[1]
                        updatedProject == updateProject(projects[projectId], updates)
                    IN  /\ projects' = [projects EXCEPT ![projectId] = updatedProject]
                        /\ response' = Respond(200, "project", updatedProject)
    /\ UNCHANGED <<scenarios, nextProjectId, nextScenarioId, calcVars>>

\* The client takes the response; the next request is sent after that.
Receive ==
    /\ response # NoResponse
    /\ response' = NoResponse
    /\ aiRequest' = NoAiRequest
    /\ UNCHANGED <<projects, scenarios, nextProjectId, nextScenarioId, calcVars>>

Request ==
    \/ \E user \in Creators, body \in ProjectBodies : PostProject(user, body)
    \/ \E user \in Users, id \in ProjectIds, body \in ProjectBodies : PutProject(user, id, body)
    \/ \E user \in Users, id \in ProjectIds : DeleteProject(user, id)
    \/ \E user \in Users, pid \in ProjectIds :
           \E body \in ScenarioCreateBodies(pid) : PostScenario(user, body)
    \/ \E user \in Users, id \in ScenarioIds, body \in ScenarioUpdateBodies :
           PutScenario(user, id, body)
    \/ \E user \in Users, id \in ScenarioIds : DeleteScenario(user, id)
    \/ \E user \in Users, id \in ProjectIds \cup {0} : PostAnalysis(user, id)
    \/ \E user \in Users, id \in ProjectIds \cup {0}, t \in ScenarioTypes :
           PostReport(user, id, t)

Next ==
    \/ Request
    \/ Receive

Spec == Init /\ [][Next]_vars

(***************************************************************************)
(* Every route that reads or writes a project or its scenarios, with       *)
(* partial bodies for the updates.                                          *)
(***************************************************************************)
RequestApi ==
    \/ \E user \in Creators, body \in FullProjectBodies : PostProject(user, body)
    \/ \E user \in Users, id \in ProjectIds : GetProject(user, id)
    \/ \E user \in Users, id \in ProjectIds, body \in PartialProjectBodies :
           PutProject(user, id, body)
    \/ \E user \in Users, id \in ProjectIds : DeleteProject(user, id)
    \/ \E user \in Users, id \in ProjectIds : GetProjectScenarios(user, id)
    \/ \E user \in Users, pid \in ProjectIds :
           \E body \in ScenarioCreateBodies(pid) : PostScenario(user, body)
    \/ \E user \in Users, id \in ScenarioIds, body \in PartialScenarioBodies :
           PutScenario(user, id, body)
    \/ \E user \in Users, id \in ScenarioIds : DeleteScenario(user, id)
    \/ \E user \in Users, id \in ProjectIds \cup {0} : PostAnalysis(user, id)
    \/ \E user \in Users, id \in ProjectIds \cup {0}, t \in ScenarioTypes :
           PostReport(user, id, t)
    \/ \E user \in Users, id \in ProjectIds \cup {0}, answers \in AnswerKinds,
          ai \in AiUpdateOutcomes :
           UpdateWithAnswers(user, id, answers, ai)

NextApi ==
    \/ RequestApi
    \/ Receive

SpecApi == Init /\ [][NextApi]_vars

(***************************************************************************)
(* The calculations on their own: one call of a client function, or of a   *)
(* handler's calculation on a project with a single scenario, on arguments *)
(* drawn from the value sets above.  cOut keeps the locals of the call     *)
(* next to what it returned.                                               *)
(***************************************************************************)
\* A project whose figures give intermediate values with more than two
\* decimals, so that rounding early and rounding late differ.
FractionalProject ==
    [id |-> 1, userId |-> 1, timeHorizon |-> 12, initialInvestment |-> 70,
     monthlyFixedCosts |-> 3, variableCosts |-> 33, expectedMonthlyRevenue |-> 7]

CalcProjects ==
    { [id |-> 1, userId |-> 1, timeHorizon |-> th, initialInvestment |-> ii,
       monthlyFixedCosts |-> fc, variableCosts |-> vc, expectedMonthlyRevenue |-> rev] :
      th \in TimeHorizonValues, ii \in InvestmentValues, fc \in FixedCostValues,
      vc \in VariableCostValues, rev \in RevenueValues }
    \cup {FractionalProject}

CalcScenarios ==
    { [id |-> 1, projectId |-> 1, name |-> nm, enabled |-> en,
       growthRate |-> g, costAdjustment |-> c] :
      nm \in ScenarioNames, en \in BOOLEAN, g \in GrowthRateValues,
      c \in CostAdjustmentValues }

InitCalc ==
    /\ projects = <<>>
    /\ scenarios = <<>>
    /\ nextProjectId = 1
    /\ nextScenarioId = 1
    /\ response = NoResponse
    /\ aiRequest = NoAiRequest
    /\ cProject \in CalcProjects
    /\ cScenario \in CalcScenarios
    /\ cOut = NoCall
    /\ fValue = NoValue
    /\ fText = NoText
    /\ calls = NoCalls
    /\ chart = NoChart
    /\ selectedMonths = <<3, 6, 9, 12>>

CallCalculateFinancialMetrics ==
    /\ cOut = NoCall
    /\ LET adj == calculateFinancialMetrics_adjusted(cProject, cScenario)
       IN  cOut' = [NoCall EXCEPT
                       !.call = "calculateFinancialMetrics",
                       !.outcome = "returned",
                       !.adjusted = adj,
                       !.unrounded = calculateFinancialMetrics_unrounded(cProject, adj),
                       !.metrics = calculateFinancialMetrics(cProject, cScenario)]
    /\ UNCHANGED <<serverVars, cProject, cScenario, formatVars, componentVars>>

CallGenerateMonthlyProjections ==
    /\ cOut = NoCall
    /\ LET adj == generateMonthlyProjections_adjusted(cProject, cScenario)
       IN  cOut' = [NoCall EXCEPT
                       !.call = "generateMonthlyProjections",
                       !.outcome = "returned",
                       !.adjusted = adj,
                       !.months = generateMonthlyProjections_months(adj),
                       !.projections = generateMonthlyProjections(cProject, cScenario)]
    /\ UNCHANGED <<serverVars, cProject, cScenario, formatVars, componentVars>>

CallGenerateCostBreakdown ==
    /\ cOut = NoCall
    /\ cOut' = [NoCall EXCEPT
                   !.call = "generateCostBreakdown",
                   !.outcome = "returned",
                   !.costBreakdown = generateCostBreakdown(cProject)]
    /\ UNCHANGED <<serverVars, cProject, cScenario, formatVars, componentVars>>

CallPostAnalysis ==
    /\ cOut = NoCall
    /\ LET pws == Spread(cProject, [scenarios |-> <<cScenario>>])
           adj == PostAnalysis_adjusted(pws, cScenario)
           entry == PostAnalysis_scenarioCalculations(pws)[1]
       IN  cOut' = [NoCall EXCEPT
                       !.call = "POST /api/analysis",
                       !.outcome = "returned",
                       !.adjusted = adj,
                       !.unrounded = PostAnalysis_unrounded(pws, adj),
                       !.months = PostAnalysis_months(adj),
                       !.metrics = entry.financialMetrics,
                       !.projections = entry.monthlyProjections,
                       !.costBreakdown = PostAnalysis_costBreakdown(pws)]
    /\ UNCHANGED <<serverVars, cProject, cScenario, formatVars, componentVars>>

CallPostReport ==
    /\ cOut = NoCall
    /\ LET pws == Spread(cProject, [scenarios |-> <<cScenario>>])
           adj == PostReport_adjusted(pws, cScenario)
           entry == PostReport_scenarioCalculations(pws)[1]
       IN  cOut' = [NoCall EXCEPT
                       !.call = "POST /api/report",
                       !.outcome = "returned",
                       !.adjusted = adj,
                       !.unrounded = PostReport_unrounded(pws, adj),
                       !.months = PostReport_months(adj),
                       !.metrics = entry.financialMetrics,
                       !.projections = entry.monthlyProjections]
    /\ UNCHANGED <<serverVars, cProject, cScenario, formatVars, componentVars>>

NextCalc ==
    \/ CallCalculateFinancialMetrics
    \/ CallGenerateMonthlyProjections
    \/ CallGenerateCostBreakdown
    \/ CallPostAnalysis
    \/ CallPostReport

SpecCalc == InitCalc /\ [][NextCalc]_vars

(***************************************************************************)
(* The calculations on arguments with a field missing, zero or negative    *)
(***************************************************************************)
RequiredProjectFields ==
    {"initialInvestment", "monthlyFixedCosts", "variableCosts", "expectedMonthlyRevenue"}

RequiredScenarioFields == {"growthRate", "costAdjustment"}

\* Values a field can hold without being missing.
ZeroOrNegative == {0, -5}

\* IdleProject with one required field missing, or holding zero or a
\* negative number.
DegenerateProjects ==
    {IdleProject}
    \cup { Omit(IdleProject, f) : f \in RequiredProjectFields }
    \cup { [IdleProject EXCEPT ![f] = v] : f \in RequiredProjectFields, v \in ZeroOrNegative }

DegenerateScenarios ==
    {IdleScenario}
    \cup { Omit(IdleScenario, f) : f \in RequiredScenarioFields }
    \cup { [IdleScenario EXCEPT ![f] = v] : f \in RequiredScenarioFields, v \in ZeroOrNegative }

InitAbsent ==
    /\ projects = <<>>
    /\ scenarios = <<>>
    /\ nextProjectId = 1
    /\ nextScenarioId = 1
    /\ response = NoResponse
    /\ aiRequest = NoAiRequest
    /\ cProject \in DegenerateProjects
    /\ cScenario \in DegenerateScenarios
    /\ cOut = NoCall
    /\ fValue = NoValue
    /\ fText = NoText
    /\ calls = NoCalls
    /\ chart = NoChart
    /\ selectedMonths = <<3, 6, 9, 12>>

SpecAbsent == InitAbsent /\ [][NextCalc]_vars

(***************************************************************************)
(* Client library: formatCurrency, formatPercentage, formatMonths          *)
(***************************************************************************)
\* `${prefix}${number}${suffix}` where number is what toFixed printed
Text(prefix, number, suffix) == [prefix |-> prefix, number |-> number, suffix |-> suffix]

\* value === null || value === undefined
isNullish(value) == value.type \in {"null", "undefined"}

\* typeof value === 'string' ? Number(value) : value
numValueOf(value) == value.num

\* x >= y, false when either side is NaN
NumGeq(x, y) == ~isNaN(x) /\ ~isNaN(y) /\ ~NumLess(x, y)

formatCurrency(value) ==
    IF isNullish(value) THEN Text("$", toFixed(Num(0), 2), "")
    ELSE LET numValue == numValueOf(value)
         IN  IF isNaN(numValue) THEN Text("$", toFixed(Num(0), 2), "")
             ELSE IF NumGeq(numValue, Num(1000))
             THEN Text("$", toFixed(NumDiv(numValue, Num(1000)), 1), "K")
             ELSE Text("$", toFixed(numValue, 2), "")

formatPercentage(value) ==
    IF isNullish(value) THEN Text("", toFixed(Num(0), 1), "%")
    ELSE LET numValue == numValueOf(value)
         IN  IF isNaN(numValue) THEN Text("", toFixed(Num(0), 1), "%")
             ELSE Text("", toFixed(numValue, 1), "%")

formatMonths(value) ==
    IF isNullish(value) THEN Text("", toFixed(Num(0), 1), " mo")
    ELSE LET numValue == numValueOf(value)
         IN  IF isNaN(numValue) THEN Text("", toFixed(Num(0), 1), " mo")
             ELSE Text("", toFixed(numValue, 1), " mo")

\* The values handed to the formatters: tenths around zero, metrics of the
\* size the calculations give, the non-finite numbers, strings and nullish
\* values.
FormatTenths == -30..30

FormatValues ==
    { [type |-> "number", num |-> Norm(t, 10)] : t \in FormatTenths }
    \cup { [type |-> "number", num |-> x] :
           x \in {Norm(2112, 10), Num(999), Num(1000), Num(105600), Norm(-1234567, 100),
                  NaN, PosInfinity, NegInfinity} }
    \cup { [type |-> "string", num |-> x] : x \in {Norm(125, 10), NaN} }
    \cup { [type |-> "null"], [type |-> "undefined"] }

InitFormat ==
    /\ projects = <<>>
    /\ scenarios = <<>>
    /\ nextProjectId = 1
    /\ nextScenarioId = 1
    /\ response = NoResponse
    /\ aiRequest = NoAiRequest
    /\ cProject = IdleProject
    /\ cScenario = IdleScenario
    /\ cOut = NoCall
    /\ fValue \in FormatValues
    /\ fText = NoText
    /\ calls = NoCalls
    /\ chart = NoChart
    /\ selectedMonths = <<3, 6, 9, 12>>

CallFormatCurrency ==
    /\ fText = NoText
    /\ fText' = [fn |-> "formatCurrency", text |-> formatCurrency(fValue)]
    /\ UNCHANGED <<serverVars, cProject, cScenario, cOut, fValue, componentVars>>

CallFormatPercentage ==
    /\ fText = NoText
    /\ fText' = [fn |-> "formatPercentage", text |-> formatPercentage(fValue)]
    /\ UNCHANGED <<serverVars, cProject, cScenario, cOut, fValue, componentVars>>

CallFormatMonths ==
    /\ fText = NoText
    /\ fText' = [fn |-> "formatMonths", text |-> formatMonths(fValue)]
    /\ UNCHANGED <<serverVars, cProject, cScenario, cOut, fValue, componentVars>>

NextFormat ==
    \/ CallFormatCurrency
    \/ CallFormatPercentage
    \/ CallFormatMonths

SpecFormat == InitFormat /\ [][NextFormat]_vars

(***************************************************************************)
(* DatabaseStorage.deleteProject next to a concurrent createScenario for   *)
(* the same project.  deleteProject is two statements with no transaction  *)
(* around them; each statement is one step.  scenarios.project_id          *)
(* references projects.id: an insert for a project that is not stored, and *)
(* a delete of a project that is still referenced, fail.                   *)
(***************************************************************************)
\* The stored tables hold at most this many scenarios when the calls start.
MaxStoredScenarios == 2

StoredProjects ==
    [id \in {1, 2} |->
        [id |-> id, userId |-> 1, timeHorizon |-> 12, initialInvestment |-> 50000,
         monthlyFixedCosts |-> 5000, variableCosts |-> 20, expectedMonthlyRevenue |-> 15000]]

\* The scenarios tables the calls may find: rows of either project, under
\* the ids the serial gave them.
StoredTables ==
    UNION { { [k \in 1..n |->
                  [id |-> k, projectId |-> pids[k], name |-> "Realistic",
                   enabled |-> on[k], growthRate |-> 15, costAdjustment |-> 0]] :
              pids \in [1..n -> {1, 2}], on \in [1..n -> BOOLEAN] } :
            n \in 0..MaxStoredScenarios }

InitStorage ==
    /\ projects = StoredProjects
    /\ scenarios \in StoredTables
    /\ nextProjectId = 3
    /\ nextScenarioId = Len(scenarios) + 1
    /\ response = NoResponse
    /\ aiRequest = NoAiRequest
    /\ cProject = IdleProject
    /\ cScenario = IdleScenario
    /\ cOut = NoCall
    /\ fValue = NoValue
    /\ fText = NoText
    /\ \E id \in DOMAIN StoredProjects :
           calls = [deleteProject |-> "called", createScenario |-> "called", id |-> id,
                    before |-> getScenarios(scenarios, id), inserted |-> 0]
    /\ chart = NoChart
    /\ selectedMonths = <<3, 6, 9, 12>>

\* deleteProject, first statement: db.delete(scenarios).where(projectId = id)
deleteProject_deleteScenarios ==
    /\ calls.deleteProject = "called"
    /\ scenarios' = deleteProject_scenarios(scenarios, calls.id)
    /\ calls' = [calls EXCEPT !.deleteProject = "scenariosDeleted"]
    /\ UNCHANGED <<projects, nextProjectId, nextScenarioId, response, aiRequest,
                   cProject, cScenario, cOut, formatVars, chart, selectedMonths>>

\* deleteProject, second statement: db.delete(projects).where(id = id); it
\* fails while a scenario references the project.
deleteProject_deleteProject ==
    /\ calls.deleteProject = "scenariosDeleted"
    /\ IF getScenarios(scenarios, calls.id) # <<>>
       THEN /\ calls' = [calls EXCEPT !.deleteProject = "threw"]
            /\ UNCHANGED projects
       ELSE /\ calls' = [calls EXCEPT !.deleteProject = "returned"]
            /\ projects' = [k \in DOMAIN projects \ {calls.id} |-> projects[k]]
    /\ UNCHANGED <<scenarios, nextProjectId, nextScenarioId, response, aiRequest,
                   cProject, cScenario, cOut, formatVars, chart, selectedMonths>>

\* createScenario for the same project: one insert; it fails when the
\* project is not stored.
createScenario_insert ==
    /\ calls.createScenario = "called"
    /\ IF calls.id \notin DOMAIN projects
       THEN /\ calls' = [calls EXCEPT !.createScenario = "threw"]
            /\ UNCHANGED <<scenarios, nextScenarioId>>
       ELSE LET scenario == createScenario(nextScenarioId,
                                           [projectId |-> calls.id, name |-> "Custom",
                                            growthRate |-> 25, costAdjustment |-> -5])
            IN  /\ scenarios' = Append(scenarios, scenario)
                /\ nextScenarioId' = nextScenarioId + 1
                /\ calls' = [calls EXCEPT !.createScenario = "returned",
                                          !.inserted = scenario.id]
    /\ UNCHANGED <<projects, nextProjectId, response, aiRequest,
                   cProject, cScenario, cOut, formatVars, chart, selectedMonths>>

NextStorage ==
    \/ deleteProject_deleteScenarios
    \/ deleteProject_deleteProject
    \/ createScenario_insert

SpecStorage == InitStorage /\ [][NextStorage]_vars

(***************************************************************************)
(* RevenueExpensesChart: the loop that finds the break-even month, one     *)
(* iteration a step.  The component returns before the loop when it has no *)
(* data, so monthlyData is not empty here.                                  *)
(***************************************************************************)
\* monthlyData has at most this many entries.
MaxMonths == 3

\* The profit fields: losses, zero, gains and a profit that is not a number.
ChartProfits == {Num(-2), Num(-1), Num(0), Num(1), Num(3), NaN}

ChartData ==
    UNION { { [k \in 1..n |-> [month |-> k, profit |-> profits[k]]] :
              profits \in [1..n -> ChartProfits] } :
            n \in 1..MaxMonths }

\* Fault variant: a later month with a non-negative sum replaces the month found.
RevenueExpensesChart_breakEvenMonth_overwritten(cumulativeProfit, breakEvenMonth, i) ==
    IF NumGeq(cumulativeProfit, Num(0))
    THEN i + 1
    ELSE breakEvenMonth

\* if (cumulativeProfit >= 0 && breakEvenMonth === 0) breakEvenMonth = i + 1
RevenueExpensesChart_breakEvenMonth(cumulativeProfit, breakEvenMonth, i) ==
    IF NumGeq(cumulativeProfit, Num(0)) /\ breakEvenMonth = 0
    THEN i + 1
    ELSE breakEvenMonth

InitChart ==
    /\ projects = <<>>
    /\ scenarios = <<>>
    /\ nextProjectId = 1
    /\ nextScenarioId = 1
    /\ response = NoResponse
    /\ aiRequest = NoAiRequest
    /\ cProject = IdleProject
    /\ cScenario = IdleScenario
    /\ cOut = NoCall
    /\ fValue = NoValue
    /\ fText = NoText
    /\ calls = NoCalls
    /\ \E monthlyData \in ChartData :
           chart = [monthlyData |-> monthlyData, i |-> 0, cumulativeProfit |-> Num(0),
                    breakEvenMonth |-> 0]
    /\ selectedMonths = <<3, 6, 9, 12>>

\* One pass of the body of for (let i = 0; i < monthlyData.length; i++)
RevenueExpensesChart_iteration ==
    /\ chart.i < Len(chart.monthlyData)
    /\ LET cumulativeProfit ==
               NumAdd(chart.cumulativeProfit, chart.monthlyData[chart.i + 1].profit)
       IN  chart' = [chart EXCEPT
                         !.cumulativeProfit = cumulativeProfit,
                         !.breakEvenMonth =
                             RevenueExpensesChart_breakEvenMonth(cumulativeProfit,
                                                                 chart.breakEvenMonth,
                                                                 chart.i),
                         !.i = chart.i + 1]
    /\ UNCHANGED <<serverVars, cProject, cScenario, cOut, formatVars, calls, selectedMonths>>

NextChart == RevenueExpensesChart_iteration

SpecChart == InitChart /\ [][NextChart]_vars

(***************************************************************************)
(* ProfitProjectionChart: the selectedMonths state and toggleMonth, called *)
(* by the twelve checkboxes of the filter.  Every call works on the        *)
(* selectedMonths of the render it was made from, which is the current one. *)
(***************************************************************************)
\* Array.from({ length: 12 }, (_, i) => i + 1)
FilterMonths == 1..12

\* selectedMonths.includes(month)
includes(list, month) == \E k \in 1..Len(list) : list[k] = month

\* list.sort((a, b) => a - b)
RECURSIVE sort(_)
sort(list) ==
    IF Len(list) <= 1 THEN list
    ELSE LET rest == sort(Tail(list))
             head == Head(list)
             smaller == SelectSeq(rest, LAMBDA x : x < head)
             others == SelectSeq(rest, LAMBDA x : ~(x < head))
         IN  smaller \o <<head>> \o others

\* Fault variant: the month is appended and the list is left unsorted.
toggleMonth_unsorted(list, month) ==
    IF includes(list, month)
    THEN SelectSeq(list, LAMBDA m : m # month)
    ELSE Append(list, month)

\* toggleMonth: the value handed to setSelectedMonths
toggleMonth(list, month) ==
    IF includes(list, month)
    THEN SelectSeq(list, LAMBDA m : m # month)
    ELSE sort(Append(list, month))

InitToggle ==
    /\ projects = <<>>
    /\ scenarios = <<>>
    /\ nextProjectId = 1
    /\ nextScenarioId = 1
    /\ response = NoResponse
    /\ aiRequest = NoAiRequest
    /\ cProject = IdleProject
    /\ cScenario = IdleScenario
    /\ cOut = NoCall
    /\ fValue = NoValue
    /\ fText = NoText
    /\ calls = NoCalls
    /\ chart = NoChart
    /\ selectedMonths = <<3, 6, 9, 12>>

\* onChange of the checkbox of a month
ToggleMonth(month) ==
    /\ selectedMonths' = toggleMonth(selectedMonths, month)
    /\ UNCHANGED <<serverVars, cProject, cScenario, cOut, formatVars, calls, chart>>

NextToggle == \E month \in FilterMonths : ToggleMonth(month)

SpecToggle == InitToggle /\ [][NextToggle]_vars

(***************************************************************************)
(* Properties                                                              *)
(***************************************************************************)
\* The calls of the harness by what they compute.
AdjustingCalls ==
    {"calculateFinancialMetrics", "generateMonthlyProjections",
     "POST /api/analysis", "POST /api/report"}
MetricsCalls == {"calculateFinancialMetrics", "POST /api/analysis", "POST /api/report"}
ProjectionCalls == {"generateMonthlyProjections", "POST /api/analysis", "POST /api/report"}

\* The scenario rows the store holds for the project of an analysis response.
StoredScenarios(pid) == getScenarios(scenarios, pid)

\* C1: the scenario list of an analysis response, and the scenario
\* calculations handed to the report generator, never hold an entry whose
\* scenario is disabled.
C1_DisabledNeverAggregated ==
    /\ response.kind = "analysis" =>
           \A k \in 1..Len(response.body.scenarios) :
               response.body.scenarios[k].scenario.enabled
    /\ aiRequest.fn = "generateAnalysisReport" =>
           \A k \in 1..Len(aiRequest.scenarioCalculations) :
               aiRequest.scenarioCalculations[k].scenario.enabled

\* C2: the adjusted figures are revenue * (1 + growthRate/100),
\* fixed costs * (1 + costAdjustment/100) and variable rate *
\* (1 + costAdjustment/100): each figure, times 100, is the stored value
\* times (100 + its own percentage), and no other percentage enters.
C2_AdjustedFigures ==
    cOut.call \in AdjustingCalls =>
        LET a == cOut.adjusted
            g == cScenario.growthRate
            c == cScenario.costAdjustment
        IN  /\ isFinite(a.adjustedMonthlyRevenue)
            /\ isFinite(a.adjustedMonthlyFixedCosts)
            /\ isFinite(a.adjustedVariableCosts)
            /\ a.adjustedMonthlyRevenue.n * 100 =
                   cProject.expectedMonthlyRevenue * (100 + g) * a.adjustedMonthlyRevenue.d
            /\ a.adjustedMonthlyFixedCosts.n * 100 =
                   cProject.monthlyFixedCosts * (100 + c) * a.adjustedMonthlyFixedCosts.d
            /\ a.adjustedVariableCosts.n * 100 =
                   cProject.variableCosts * (100 + c) * a.adjustedVariableCosts.d

C2_Witness ==
    /\ cOut.call = "calculateFinancialMetrics"
    /\ cScenario.growthRate = 25
    /\ cScenario.costAdjustment = -5
    /\ cProject.expectedMonthlyRevenue = 15000
    /\ cOut.adjusted.adjustedMonthlyRevenue = Num(18750)
    /\ cOut.adjusted.adjustedMonthlyFixedCosts # Number(Get(cProject, "monthlyFixedCosts"))

\* C3: with non-zero divisors the unrounded metrics are the reference
\* formulas over the adjusted figures: netProfit = 12*rev - 12*fixed -
\* (rate/100)*12*rev, roi = netProfit/investment*100, breakEven =
\* investment/(rev - fixed - (rate/100)*rev), profitMargin =
\* netProfit/(12*rev)*100.
C3_ReferenceMetrics ==
    cOut.call \in MetricsCalls =>
        LET rev == cOut.adjusted.adjustedMonthlyRevenue
            fixed == cOut.adjusted.adjustedMonthlyFixedCosts
            rate == cOut.adjusted.adjustedVariableCosts
            inv == Num(cProject.initialInvestment)
            netProfit ==
                NumSub(NumSub(NumMul(Num(12), rev), NumMul(Num(12), fixed)),
                       NumMul(NumMul(NumDiv(rate, Num(100)), Num(12)), rev))
            perMonth == NumSub(NumSub(rev, fixed), NumMul(NumDiv(rate, Num(100)), rev))
            u == cOut.unrounded
        IN  /\ u.annualProfit = netProfit
            /\ inv.n # 0 => u.roi = NumMul(NumDiv(netProfit, inv), Num(100))
            /\ perMonth.n # 0 => u.breakEven = NumDiv(inv, perMonth)
            /\ rev.n # 0 =>
                   u.profitMargin = NumMul(NumDiv(netProfit, NumMul(Num(12), rev)), Num(100))

C3_Witness ==
    /\ cOut.call = "POST /api/analysis"
    /\ cProject.initialInvestment # 0
    /\ cOut.adjusted.adjustedMonthlyRevenue.n # 0
    /\ cOut.unrounded.monthlyProfit.n # 0
    /\ isFinite(cOut.unrounded.roi)
    /\ isFinite(cOut.unrounded.breakEven)
    /\ isFinite(cOut.unrounded.profitMargin)

\* C4: the monthly projection has exactly 12 entries with month fields
\* 1, 2, ..., 12 in that order, whatever the project's timeHorizon.
C4_TwelveMonths ==
    cOut.call \in ProjectionCalls =>
        /\ Len(cOut.projections) = 12
        /\ \A k \in 1..Len(cOut.projections) : cOut.projections[k].month = k

C4_Witness ==
    /\ cOut.call = "generateMonthlyProjections"
    /\ cProject.timeHorizon = 6
    /\ Len(cOut.projections) = 12
    /\ cOut.projections[7].month = 7

\* C5: before rounding, month m has revenue = adjusted revenue *
\* (1 + 0.02*(m-1)), expenses = adjusted fixed costs + (adjusted rate/100) *
\* revenue and profit = revenue - expenses; the growth is linear in m, so
\* month 12 revenue is 1.22 times month 1 revenue.
C5_MonthlyFormulas ==
    cOut.call \in ProjectionCalls =>
        LET rev == cOut.adjusted.adjustedMonthlyRevenue
            fixed == cOut.adjusted.adjustedMonthlyFixedCosts
            rate == cOut.adjusted.adjustedVariableCosts
            ms == cOut.months
        IN  /\ Len(ms) >= 12 =>
                   NumMul(Num(100), ms[12].monthRevenue) = NumMul(Num(122), ms[1].monthRevenue)
            /\ \A m \in 1..Len(ms) :
                   /\ ms[m].monthRevenue.n * 50 * rev.d =
                          rev.n * (50 + (m - 1)) * ms[m].monthRevenue.d
                   /\ NumSub(ms[m].monthExpenses, fixed) =
                          NumDiv(NumMul(rate, ms[m].monthRevenue), Num(100))
                   /\ NumAdd(ms[m].monthProfit, ms[m].monthExpenses) = ms[m].monthRevenue

C5_Witness ==
    /\ cOut.call = "POST /api/report"
    /\ cScenario.growthRate = 8
    /\ cScenario.costAdjustment = 15
    /\ cProject.expectedMonthlyRevenue = 15000
    /\ cOut.months[1].monthRevenue = Num(16200)
    /\ cOut.months[12].monthRevenue = Num(19764)

\* Scenario lists a project could have instead of the stored one.
AlternativeScenarioLists ==
    LET rows == { [id |-> 9, projectId |-> 1, name |-> "Custom", enabled |-> en,
                   growthRate |-> g, costAdjustment |-> c] :
                  en \in BOOLEAN, g \in {8, 25}, c \in {-5, 15} }
    IN  {<<>>} \cup { <<r>> : r \in rows } \cup { <<r1, r2>> : r1 \in rows, r2 \in rows }

\* C6: the cost breakdown is {initialInvestment, monthlyFixedCosts*12,
\* expectedMonthlyRevenue*(variableCosts/100)*12} of the unadjusted project
\* figures, in the analysis response and in the client function alike, and
\* it is the same for every scenario list the project could have.
C6_CostBreakdownFromBase ==
    response.kind = "analysis" =>
        LET pws == response.body.project
            reference ==
                [initialInvestment |-> Num(pws.initialInvestment),
                 fixedCosts |-> Num(pws.monthlyFixedCosts * 12),
                 variableCosts |-> Norm(pws.expectedMonthlyRevenue * pws.variableCosts * 12, 100)]
        IN  /\ response.body.costBreakdown = reference
            /\ generateCostBreakdown(projects[pws.id]) = reference
            /\ \A sl \in AlternativeScenarioLists :
                   PostAnalysis_costBreakdown(Spread(pws, [scenarios |-> sl])) =
                       response.body.costBreakdown

C6_Witness ==
    /\ response.kind = "analysis"
    /\ Len(response.body.scenarios) = 3
    /\ \E k \in 1..3 : ~response.body.project.scenarios[k].enabled
    /\ \E k \in 1..3 : response.body.project.scenarios[k].costAdjustment = 15
    /\ response.body.costBreakdown.fixedCosts = Num(60000)
    /\ response.body.costBreakdown.variableCosts = Num(36000)

\* C7: when the project has no scenario, or every scenario of it is
\* disabled, the analysis answers 200 with an empty scenario list and the
\* cost breakdown of the base project inputs.
C7_EmptyWhenNoneEnabled ==
    (/\ response.kind = "analysis"
     /\ \A k \in 1..Len(response.body.project.scenarios) :
            ~response.body.project.scenarios[k].enabled)
    => /\ response.status = 200
       /\ response.body.scenarios = <<>>
       /\ response.body.costBreakdown.initialInvestment =
              Num(response.body.project.initialInvestment)
       /\ response.body.costBreakdown.fixedCosts =
              Num(response.body.project.monthlyFixedCosts * 12)

\* C8: with initialInvestment = 0 a metrics computation still returns: its
\* roi is Infinity, -Infinity or NaN, its netProfit is the finite annual
\* profit, and a handler's computation returns its 12 projection entries.
C8_ZeroInvestmentRoi ==
    (cOut.call \in MetricsCalls /\ cProject.initialInvestment = 0) =>
        /\ ~isFinite(cOut.metrics.roi)
        /\ isFinite(cOut.metrics.netProfit)
        /\ cOut.metrics.netProfit = parseFloat(toFixed(cOut.unrounded.annualProfit, 2))
        /\ cOut.metrics.riskLevel \in {"Low", "Medium", "High"}
        /\ cOut.call # "calculateFinancialMetrics" => Len(cOut.projections) = 12

C8_Witness ==
    /\ cOut.call = "POST /api/analysis"
    /\ cProject.initialInvestment = 0
    /\ cOut.metrics.roi = PosInfinity
    /\ isFinite(cOut.metrics.profitMargin)

\* C9: with a negative adjusted monthly profit and initialInvestment > 0 the
\* returned breakEven is initialInvestment / monthlyProfit to one decimal:
\* a number of tenths within half a tenth of the quotient, and negative
\* whenever the quotient is at least half a tenth below zero.
C9_NegativeBreakEven ==
    cOut.call \in MetricsCalls =>
        LET rev == cOut.adjusted.adjustedMonthlyRevenue
            fixed == cOut.adjusted.adjustedMonthlyFixedCosts
            rate == cOut.adjusted.adjustedVariableCosts
            monthlyProfit ==
                NumSub(NumMul(rev, NumSub(Num(1), NumDiv(rate, Num(100)))), fixed)
            q == NumDiv(Num(cProject.initialInvestment), monthlyProfit)
            b == cOut.metrics.breakEven
            tenths == b.n * (10 \div b.d)
        IN  (monthlyProfit.n < 0 /\ cProject.initialInvestment > 0) =>
                /\ isFinite(b)
                /\ 10 % b.d = 0
                /\ 2 * Abs(tenths * q.d - 10 * q.n) <= q.d
                /\ 20 * Abs(q.n) >= q.d => b.n < 0

C9_Witness ==
    /\ cOut.call = "calculateFinancialMetrics"
    /\ cProject.initialInvestment = 50000
    /\ cProject.monthlyFixedCosts = 20000
    /\ cProject.expectedMonthlyRevenue = 15000
    /\ cOut.unrounded.monthlyProfit.n < 0
    /\ cOut.metrics.breakEven.n < 0

\* C10: the entries of an analysis response stand in the order the store
\* supplies the project's scenarios, and each entry holds the metrics and
\* the projection computed from the scenario it names.
C10_OrderAndPairing ==
    response.kind = "analysis" =>
        LET pws == response.body.project
            out == response.body.scenarios
            stored == StoredScenarios(pws.id)
            pos(id) == CHOOSE k \in 1..Len(stored) : stored[k].id = id
        IN  /\ \A k \in 1..Len(out) : \E j \in 1..Len(stored) : stored[j] = out[k].scenario
            /\ \A i, j \in 1..Len(out) :
                   i < j => pos(out[i].scenario.id) < pos(out[j].scenario.id)
            /\ \A k \in 1..Len(out) :
                   LET adj == PostAnalysis_adjusted(pws, out[k].scenario)
                       ms == PostAnalysis_months(adj)
                   IN  /\ out[k].financialMetrics =
                              PostAnalysis_financialMetrics(
                                  PostAnalysis_unrounded(pws, adj),
                                  PostAnalysis_riskLevel(out[k].scenario))
                       /\ out[k].monthlyProjections =
                              [m \in 1..Len(ms) |-> PostAnalysis_entry(ms[m])]

C10_Witness ==
    /\ response.kind = "analysis"
    /\ Len(response.body.scenarios) = 4
    /\ response.body.scenarios[1].scenario.name = "Realistic"
    /\ response.body.scenarios[2].scenario.name = "Optimistic"
    /\ response.body.scenarios[3].scenario.name = "Pessimistic"
    /\ response.body.scenarios[4].scenario.name = "Custom"
    /\ response.body.scenarios[1].financialMetrics.roi = Norm(2112, 10)
    /\ response.body.scenarios[2].financialMetrics.roi # Norm(2112, 10)

\* C11: riskLevel is a function of the scenario name alone: "Optimistic"
\* gives Low, "Realistic" gives Medium and every other name gives High,
\* whatever the project inputs, growthRate and costAdjustment are and
\* whatever sign or finiteness the roi has.
C11_RiskLevelByName ==
    cOut.call \in MetricsCalls =>
        cOut.metrics.riskLevel =
            CASE cScenario.name = "Optimistic" -> "Low"
              [] cScenario.name = "Realistic" -> "Medium"
              [] OTHER -> "High"

C11_Witness ==
    /\ cOut.call = "POST /api/report"
    /\ cScenario.name = "Optimistic"
    /\ cOut.metrics.roi = NegInfinity
    /\ cOut.metrics.riskLevel = "Low"

\* The value a number is emitted as: parseFloat(x.toFixed(digits)).
Emitted(x, digits) == parseFloat(toFixed(x, digits))

\* The unrounded annual profit of the adjusted figures adj.
ReferenceAnnualProfit(adj) ==
    LET annualRevenue == NumMul(Num(12), adj.adjustedMonthlyRevenue)
    IN  NumSub(NumSub(annualRevenue, NumMul(Num(12), adj.adjustedMonthlyFixedCosts)),
               NumMul(NumDiv(adj.adjustedVariableCosts, Num(100)), annualRevenue))

\* The unrounded revenue and expenses of month m of the adjusted figures adj.
ReferenceMonthRevenue(adj, m) ==
    NumMul(adj.adjustedMonthlyRevenue, Norm(50 + (m - 1), 50))

ReferenceMonthExpenses(adj, m) ==
    NumAdd(adj.adjustedMonthlyFixedCosts,
           NumMul(NumDiv(adj.adjustedVariableCosts, Num(100)), ReferenceMonthRevenue(adj, m)))

\* C12: rounding happens only on emission.  The emitted roi, breakEven and
\* profitMargin are the roundings of values computed from the unrounded
\* annual profit and adjusted figures; each month's emitted expenses are the
\* rounding of the expenses of the unrounded revenue; each month's emitted
\* profit is the rounding of (unrounded revenue - unrounded expenses).
C12_RoundingOnlyOnEmission ==
    LET adj == cOut.adjusted
        profit == ReferenceAnnualProfit(adj)
        investment == Num(cProject.initialInvestment)
        perMonth == NumSub(NumSub(adj.adjustedMonthlyRevenue, adj.adjustedMonthlyFixedCosts),
                           NumMul(NumDiv(adj.adjustedVariableCosts, Num(100)),
                                  adj.adjustedMonthlyRevenue))
    IN  /\ cOut.call \in MetricsCalls =>
               /\ cOut.metrics.netProfit = Emitted(profit, 2)
               /\ cOut.metrics.roi = Emitted(NumMul(NumDiv(profit, investment), Num(100)), 1)
               /\ cOut.metrics.breakEven = Emitted(NumDiv(investment, perMonth), 1)
               /\ cOut.metrics.profitMargin =
                      Emitted(NumMul(NumDiv(profit,
                                            NumMul(Num(12), adj.adjustedMonthlyRevenue)),
                                     Num(100)), 1)
        /\ cOut.call \in ProjectionCalls =>
               \A m \in 1..Len(cOut.projections) :
                   /\ cOut.projections[m].revenue = Emitted(ReferenceMonthRevenue(adj, m), 2)
                   /\ cOut.projections[m].expenses = Emitted(ReferenceMonthExpenses(adj, m), 2)
                   /\ cOut.projections[m].profit =
                          Emitted(NumSub(ReferenceMonthRevenue(adj, m),
                                         ReferenceMonthExpenses(adj, m)), 2)

\* A call where each early rounding would have shown: the profit margin of
\* the rounded net profit, the expenses of the rounded revenue and the
\* difference of the rounded revenue and expenses all differ from what is
\* emitted.
C12_Witness ==
    /\ cOut.call = "POST /api/analysis"
    /\ cProject = FractionalProject
    /\ cOut.metrics.netProfit # cOut.unrounded.annualProfit
    /\ cOut.metrics.profitMargin #
           Emitted(NumMul(NumDiv(cOut.metrics.netProfit,
                                 NumMul(Num(12), cOut.adjusted.adjustedMonthlyRevenue)),
                          Num(100)), 1)
    /\ (\E m \in 1..12 :
           cOut.projections[m].expenses #
               Emitted(NumAdd(cOut.adjusted.adjustedMonthlyFixedCosts,
                              NumMul(NumDiv(cOut.adjusted.adjustedVariableCosts, Num(100)),
                                     cOut.projections[m].revenue)), 2))
    /\ (\E m \in 1..12 :
           cOut.projections[m].profit #
               NumSub(cOut.projections[m].revenue, cOut.projections[m].expenses))

\* x is a whole multiple of 1/scale.
MultipleOf(x, scale) == isFinite(x) /\ scale % x.d = 0

\* C13: every finite emitted value keeps to its rounding boundary: roi,
\* breakEven and profitMargin are multiples of 0.1, netProfit is a multiple
\* of 0.01, and revenue, expenses and profit of every projection entry are
\* multiples of 0.01.
C13_RoundingBoundary ==
    /\ cOut.call \in MetricsCalls =>
           /\ isFinite(cOut.metrics.roi) => MultipleOf(cOut.metrics.roi, 10)
           /\ isFinite(cOut.metrics.breakEven) => MultipleOf(cOut.metrics.breakEven, 10)
           /\ isFinite(cOut.metrics.profitMargin) => MultipleOf(cOut.metrics.profitMargin, 10)
           /\ isFinite(cOut.metrics.netProfit) => MultipleOf(cOut.metrics.netProfit, 100)
    /\ cOut.call \in ProjectionCalls =>
           \A m \in 1..Len(cOut.projections) :
               /\ isFinite(cOut.projections[m].revenue) =>
                      MultipleOf(cOut.projections[m].revenue, 100)
               /\ isFinite(cOut.projections[m].expenses) =>
                      MultipleOf(cOut.projections[m].expenses, 100)
               /\ isFinite(cOut.projections[m].profit) =>
                      MultipleOf(cOut.projections[m].profit, 100)

C13_Witness ==
    /\ cOut.call = "POST /api/analysis"
    /\ cProject = FractionalProject
    /\ ~MultipleOf(cOut.unrounded.roi, 10)
    /\ ~MultipleOf(cOut.unrounded.breakEven, 10)
    /\ ~MultipleOf(cOut.unrounded.profitMargin, 10)
    /\ ~MultipleOf(cOut.unrounded.annualProfit, 100)
    /\ ~MultipleOf(cOut.months[2].monthRevenue, 100)
    /\ MultipleOf(cOut.metrics.roi, 10)
    /\ MultipleOf(cOut.metrics.netProfit, 100)
    /\ MultipleOf(cOut.projections[2].revenue, 100)

\* C14: for the project {initialInvestment 50000, monthlyFixedCosts 5000,
\* variableCosts 20, expectedMonthlyRevenue 15000} and the scenario
\* {Realistic, growthRate 15, costAdjustment 0} the metrics are netProfit
\* 105600, roi 211.2, breakEven 5.7, profitMargin 51 and riskLevel Medium.
C14_RealisticExample ==
    (/\ cOut.call \in MetricsCalls
     /\ cProject.initialInvestment = 50000
     /\ cProject.monthlyFixedCosts = 5000
     /\ cProject.variableCosts = 20
     /\ cProject.expectedMonthlyRevenue = 15000
     /\ cScenario.name = "Realistic"
     /\ cScenario.growthRate = 15
     /\ cScenario.costAdjustment = 0)
    => cOut.metrics = [roi |-> Norm(2112, 10),
                       breakEven |-> Norm(57, 10),
                       netProfit |-> Num(105600),
                       profitMargin |-> Num(51),
                       riskLevel |-> "Medium"]

C14_Witness ==
    /\ cOut.call = "calculateFinancialMetrics"
    /\ cProject.initialInvestment = 50000
    /\ cProject.monthlyFixedCosts = 5000
    /\ cProject.variableCosts = 20
    /\ cProject.expectedMonthlyRevenue = 15000
    /\ cScenario.name = "Realistic"
    /\ cScenario.growthRate = 15
    /\ cScenario.costAdjustment = 0
    /\ cOut.unrounded.monthlyProfit = Num(8800)
    /\ cOut.metrics.breakEven = Norm(57, 10)

\* C15: for the project {initialInvestment 50000, monthlyFixedCosts 5000,
\* variableCosts 20, expectedMonthlyRevenue 15000} and the scenario
\* {Pessimistic, growthRate 8, costAdjustment 15} the adjusted figures are
\* revenue 16200, fixed costs 5750 and variable rate 23, and the first
\* projection entry is {month 1, revenue 16200, expenses 9476, profit 6724}.
C15_PessimisticExample ==
    (/\ cProject.initialInvestment = 50000
     /\ cProject.monthlyFixedCosts = 5000
     /\ cProject.variableCosts = 20
     /\ cProject.expectedMonthlyRevenue = 15000
     /\ cScenario.name = "Pessimistic"
     /\ cScenario.growthRate = 8
     /\ cScenario.costAdjustment = 15)
    => /\ cOut.call \in AdjustingCalls =>
              cOut.adjusted = [adjustedMonthlyRevenue |-> Num(16200),
                               adjustedMonthlyFixedCosts |-> Num(5750),
                               adjustedVariableCosts |-> Num(23)]
       /\ cOut.call \in ProjectionCalls =>
              cOut.projections[1] = [month |-> 1, revenue |-> Num(16200),
                                     expenses |-> Num(9476), profit |-> Num(6724)]

C15_Witness ==
    /\ cOut.call = "generateMonthlyProjections"
    /\ cProject.initialInvestment = 50000
    /\ cProject.monthlyFixedCosts = 5000
    /\ cProject.variableCosts = 20
    /\ cProject.expectedMonthlyRevenue = 15000
    /\ cScenario.name = "Pessimistic"
    /\ cScenario.growthRate = 8
    /\ cScenario.costAdjustment = 15
    /\ cOut.projections[1].expenses = Num(9476)
    /\ cOut.projections[2].revenue = Num(16524)

\* C16: the three computation paths agree.  Whatever path a call took, its
\* metrics and its 12-entry projection are what the client functions, the
\* POST /api/analysis computation and the POST /api/report computation each
\* give for the same project and scenario, and the cost breakdown of the
\* client function is the one of POST /api/analysis (POST /api/report
\* computes none).
C16_PathsAgree ==
    LET pws == Spread(cProject, [scenarios |-> <<cScenario>>])
        analysis == PostAnalysis_scenarioCalculations(pws)[1]
        report == PostReport_scenarioCalculations(pws)[1]
    IN  /\ cOut.call \in MetricsCalls =>
               /\ cOut.metrics = calculateFinancialMetrics(cProject, cScenario)
               /\ cOut.metrics = analysis.financialMetrics
               /\ cOut.metrics = report.financialMetrics
        /\ cOut.call \in ProjectionCalls =>
               /\ Len(cOut.projections) = 12
               /\ cOut.projections = generateMonthlyProjections(cProject, cScenario)
               /\ cOut.projections = analysis.monthlyProjections
               /\ cOut.projections = report.monthlyProjections
        /\ cOut.call = "generateCostBreakdown" =>
               /\ cOut.costBreakdown = generateCostBreakdown(cProject)
               /\ cOut.costBreakdown = PostAnalysis_costBreakdown(pws)

C16_Witness ==
    /\ cOut.call = "POST /api/report"
    /\ cProject = FractionalProject
    /\ cScenario.costAdjustment = -5
    /\ isFinite(cOut.metrics.roi)
    /\ cOut.metrics.netProfit # cOut.unrounded.annualProfit
    /\ cOut.metrics = calculateFinancialMetrics(cProject, cScenario)
    /\ cOut.projections[12].profit # cOut.months[12].monthProfit

\* Another scenario a project could hold next to the ones of a response.
OtherScenario ==
    [id |-> 9, projectId |-> 1, name |-> "Other", enabled |-> TRUE,
     growthRate |-> 40, costAdjustment |-> 30]

\* C17: the entry of a scenario in an analysis response does not depend on
\* the other scenarios of the project: it is the entry the same scenario
\* gets when it is the project's only scenario, and the entry it gets when
\* it stands second behind a scenario with other values.
C17_ScenarioIndependence ==
    response.kind = "analysis" =>
        \A k \in 1..Len(response.body.scenarios) :
            LET pws == response.body.project
                entry == response.body.scenarios[k]
                alone == Spread(pws, [scenarios |-> <<entry.scenario>>])
                behind == Spread(pws, [scenarios |-> <<OtherScenario, entry.scenario>>])
            IN  /\ entry.scenario = pws.scenarios[k]
                /\ PostAnalysis_scenarioCalculations(alone)[1] = entry
                /\ PostAnalysis_scenarioCalculations(behind)[2] = entry

\* A response with three entries whose metrics differ from one another.
C17_Witness ==
    /\ response.kind = "analysis"
    /\ Len(response.body.scenarios) = 3
    /\ response.body.project.initialInvestment = 50000
    /\ response.body.scenarios[1].financialMetrics.roi #
           response.body.scenarios[2].financialMetrics.roi
    /\ response.body.scenarios[2].financialMetrics.roi #
           response.body.scenarios[3].financialMetrics.roi
    /\ response.body.scenarios[3].scenario.growthRate = 8
    /\ response.body.scenarios[3].scenario.costAdjustment = 15

RequiredFieldAbsent ==
    \/ \E f \in RequiredProjectFields : f \notin DOMAIN cProject
    \/ \E f \in RequiredScenarioFields : f \notin DOMAIN cScenario

\* C19: a metrics computation on arguments with a required numeric field
\* absent ends in an error instead of returning metrics, and one on
\* arguments whose fields are all present, be they zero or negative,
\* returns.
C19_AbsentFieldFailsFast ==
    cOut.call \in MetricsCalls =>
        IF RequiredFieldAbsent THEN cOut.outcome = "threw" ELSE cOut.outcome = "returned"

\* C20: a formatter given a non-finite number (Infinity, -Infinity or NaN)
\* returns a text that does not read as an ordinary finite number: the
\* digits in it are not those of a decimal.
C20_NonFiniteNotANumber ==
    (/\ fText.fn \in {"formatCurrency", "formatPercentage", "formatMonths"}
     /\ fValue.type = "number"
     /\ ~isFinite(fValue.num))
    => fText.text.number.kind # "decimal"

\* The three scenarios a new project starts with.
DefaultScenarios(firstId, pid) ==
    << [id |-> firstId, projectId |-> pid, name |-> "Realistic", enabled |-> TRUE,
        growthRate |-> 15, costAdjustment |-> 0],
       [id |-> firstId + 1, projectId |-> pid, name |-> "Optimistic", enabled |-> TRUE,
        growthRate |-> 25, costAdjustment |-> -5],
       [id |-> firstId + 2, projectId |-> pid, name |-> "Pessimistic", enabled |-> TRUE,
        growthRate |-> 8, costAdjustment |-> 15] >>

\* C21: when POST /api/projects has answered 201, the new project has exactly
\* three stored scenarios, all enabled, in the order Realistic (15, 0),
\* Optimistic (25, -5), Pessimistic (8, 15); its userId is the requesting
\* user's, whatever userId the body carried; and the response holds the
\* project with those scenarios.
C21_CreatedWithDefaults ==
    [][\A user \in Creators, body \in ProjectBodies :
           PostProject(user, body) =>
               /\ response'.status = 201
               /\ nextProjectId \in DOMAIN projects'
               /\ projects'[nextProjectId].userId = user
               /\ getScenarios(scenarios', nextProjectId)
                      = DefaultScenarios(nextScenarioId, nextProjectId)
               /\ response'.body
                      = Spread(projects'[nextProjectId],
                               [scenarios |->
                                    DefaultScenarios(nextScenarioId, nextProjectId)])]_vars

\* C21 witness: a project whose creating request carried another user's id
\* has been answered 201 with three scenarios.
C21_Witness ==
    /\ response.status = 201
    /\ response.kind = "project"
    /\ response.body.timeHorizon = 24
    /\ response.body.userId \in Creators
    /\ Len(response.body.scenarios) = 3

\* user is not the owner of stored project pid
NotOwner(user, pid) == pid \in DOMAIN projects /\ projects[pid].userId # user

\* A step that is a request of user on a project of somebody else, or on a
\* scenario of such a project.
NonOwnerRequest(user) ==
    \/ \E id \in ProjectIds :
           /\ NotOwner(user, id)
           /\ \/ GetProject(user, id)
              \/ \E body \in ProjectBodies \cup PartialProjectBodies : PutProject(user, id, body)
              \/ DeleteProject(user, id)
              \/ GetProjectScenarios(user, id)
              \/ \E body \in ScenarioCreateBodies(id) : PostScenario(user, body)
              \/ PostAnalysis(user, id)
              \/ \E t \in ScenarioTypes : PostReport(user, id, t)
              \/ \E answers \in AnswerKinds, ai \in AiUpdateOutcomes :
                     UpdateWithAnswers(user, id, answers, ai)
    \/ \E id \in ScenarioIds :
           LET k == getScenarioById(scenarios, id)
           IN  /\ k # 0
               /\ NotOwner(user, scenarios[k].projectId)
               /\ \/ \E body \in ScenarioUpdateBodies : PutScenario(user, id, body)
                  \/ DeleteScenario(user, id)

\* The step ends in an error response with one of the statuses, which holds
\* a message only, and stores nothing.
RefusedWith(statuses) ==
    /\ response'.status \in statuses
    /\ response'.kind = "error"
    /\ DOMAIN response'.body = {"message"}
    /\ projects' = projects
    /\ scenarios' = scenarios

C23_OwnershipNeverChanges ==
    [][\A id \in DOMAIN projects \cap DOMAIN projects' :
           projects'[id].userId = projects[id].userId]_vars

\* C24: PUT /api/scenarios/:id writes only the fields its body holds: the
\* scenario keeps its stored growthRate and costAdjustment when the body
\* omits them, and no other scenario changes.
C24_ScenarioUpdateWritesPresentFields ==
    [][\A user \in Users, id \in ScenarioIds, body \in ScenarioUpdateBodies :
           PutScenario(user, id, body) =>
               /\ Len(scenarios') = Len(scenarios)
               /\ \A k \in 1..Len(scenarios) :
                      IF scenarios[k].id = id
                      THEN \A f \in {"growthRate", "costAdjustment"} \ DOMAIN body :
                               scenarios'[k][f] = scenarios[k][f]
                      ELSE scenarios'[k] = scenarios[k]]_vars

\* The columns of a project a request body can set (the text columns are
\* not part of the rows).
ProjectFields ==
    {"timeHorizon", "initialInvestment", "monthlyFixedCosts", "variableCosts",
     "expectedMonthlyRevenue"}

\* C25: an update of a project writes only the fields supplied: after PUT
\* /api/projects/:id with a partial body, and after update-with-answers with
\* the fields the AI service returned, every field that was not supplied has
\* the value it had before.
C25_ProjectUpdateWritesSuppliedFields ==
    [][\A user \in Users, id \in ProjectIds :
           /\ \A body \in PartialProjectBodies :
                  PutProject(user, id, body) /\ response'.status = 200 =>
                      \A f \in ProjectFields \ DOMAIN body :
                          projects'[id][f] = projects[id][f]
           /\ \A answers \in AnswerKinds, ai \in AiUpdateOutcomes :
                  UpdateWithAnswers(user, id, answers, ai) /\ response'.status = 200 =>
                      \A f \in ProjectFields \ DOMAIN ai[1] :
                          projects'[id][f] = projects[id][f]]_vars

\* Both storage calls have finished.
CallsFinished ==
    /\ calls.deleteProject \in {"returned", "threw"}
    /\ calls.createScenario \in {"returned", "threw"}

\* C26: deleteProject is all-or-nothing next to a concurrent createScenario
\* for the same project: once both have finished, either the project and
\* every scenario that references it are gone, or the project and all the
\* scenarios it had before the delete started are still stored; and no
\* scenario ever references a project that is not stored.
C26_DeleteAllOrNothing ==
    /\ CallsFinished =>
           \/ /\ calls.id \notin DOMAIN projects
              /\ getScenarios(scenarios, calls.id) = <<>>
           \/ /\ calls.id \in DOMAIN projects
              /\ \A k \in 1..Len(calls.before) :
                     \E j \in 1..Len(scenarios) : scenarios[j] = calls.before[k]
    /\ \A j \in 1..Len(scenarios) : scenarios[j].projectId \in DOMAIN projects

\* The recommendations an analysis ends with when the AI text service failed.
DefaultRecommendations ==
    {PostAnalysis_recommendations("caught"), PostAnalysis_recommendations("throws")}

RECURSIVE ProfitSum(_, _)
ProfitSum(monthlyData, m) ==
    IF m = 0 THEN Num(0)
    ELSE NumAdd(ProfitSum(monthlyData, m - 1), monthlyData[m].profit)

\* The months up to `upTo' whose sum of profits so far is >= 0.
NonNegativeMonths(monthlyData, upTo) ==
    { m \in 1..upTo : NumGeq(ProfitSum(monthlyData, m), Num(0)) }

\* The smallest of them, 0 when there is none.
FirstNonNegativeMonth(monthlyData, upTo) ==
    IF NonNegativeMonths(monthlyData, upTo) = {} THEN 0
    ELSE CHOOSE m \in NonNegativeMonths(monthlyData, upTo) :
             \A other \in NonNegativeMonths(monthlyData, upTo) : m <= other

\* C28: in RevenueExpensesChart, breakEvenMonth is the smallest 1-based month
\* m for which the sum of the profit fields of entries 1..m is >= 0, among
\* the entries the loop has gone through, and 0 when there is none; once set
\* it is not overwritten by a later month.
C28_FirstBreakEvenMonth ==
    /\ [](chart.breakEvenMonth = FirstNonNegativeMonth(chart.monthlyData, chart.i))
    /\ [][chart.breakEvenMonth # 0 => chart'.breakEvenMonth = chart.breakEvenMonth]_vars

\* C28 witness: the loop is over, it found the break-even month before the
\* last entry, and the sum is non-negative again at a later entry.
C28_Witness ==
    /\ chart.i = Len(chart.monthlyData)
    /\ chart.i > 1
    /\ chart.breakEvenMonth # 0
    /\ \E m \in NonNegativeMonths(chart.monthlyData, chart.i) : m > chart.breakEvenMonth

\* C29: after any sequence of toggleMonth(m) calls with m in 1..12 from
\* [3, 6, 9, 12], selectedMonths is strictly ascending and holds months of
\* 1..12 only; and a toggleMonth(m) right after a toggleMonth(m) gives back
\* the selectedMonths from before the first.
C29_SortedAndInvolutive ==
    /\ [](/\ \A k \in 1..Len(selectedMonths) : selectedMonths[k] \in 1..12
          /\ \A k \in 1..(Len(selectedMonths) - 1) :
                 selectedMonths[k] < selectedMonths[k + 1])
    /\ [][\A month \in FilterMonths :
              ToggleMonth(month) => toggleMonth(selectedMonths', month) = selectedMonths]_vars

\* C29 witness: a month below the selected ones has been added and one of
\* the first selection removed.
C29_Witness ==
    selectedMonths = <<1, 3, 6, 12>>

\* C30: with initialInvestment # 0 and an adjusted monthly profit # 0, the
\* unrounded annual net profit is 12 times the unrounded monthly profit of
\* the break-even, so the unrounded roi (percent) times the unrounded
\* breakEven (months) is 1200, and roi and breakEven have the same sign.
C30_RoiTimesBreakEven ==
    (/\ cOut.call \in MetricsCalls
     /\ Number(Get(cProject, "initialInvestment")).n # 0
     /\ cOut.unrounded.monthlyProfit.n # 0) =>
        LET u == cOut.unrounded
        IN  /\ u.annualProfit = NumMul(Num(12), u.monthlyProfit)
            /\ NumMul(u.roi, u.breakEven) = Num(1200)
            /\ Sgn(u.roi.n) = Sgn(u.breakEven.n)
            /\ Sgn(u.roi.n) # 0

\* C30 witness: a call of the client function on a project with an
\* investment whose adjusted monthly profit is a loss with a fractional part.
C30_Witness ==
    /\ cOut.call \in MetricsCalls
    /\ Number(Get(cProject, "initialInvestment")).n # 0
    /\ isFinite(cOut.unrounded.monthlyProfit)
    /\ cOut.unrounded.monthlyProfit.n < 0
    /\ cOut.unrounded.monthlyProfit.d # 1
    /\ cOut.call = "calculateFinancialMetrics"

====
